---- MODULE Spec2Model ----
(***************************************************************************)
(* Verification model of the RPPS discovery-and-resolution core:           *)
(*   core/downloader.py      download_files_parallel (SpecDL)              *)
(*   core/parallel_runner.py run_discovery_parallel / _streaming           *)
(*   core/discovery.py       crawl_site, extraction helpers                *)
(* Strings are real strings: URL parsing, lower-casing and keyword         *)
(* matching are computed on the characters, as the Python code does.       *)
(***************************************************************************)
EXTENDS Integers, Sequences, FiniteSets, TLC

(***************************************************************************)
(* Bounds of the model (not program constants).                            *)
(***************************************************************************)
\* number of download_files_parallel calls explored in one behaviour
MaxCalls == 2
\* the `workers` argument is 1 (sequential) or MaxWorkers
MaxWorkers == 3
\* number of sites handed to the discovery runner
MaxSites == 3

(***************************************************************************)
(* String helpers (Python str semantics on the subset used).               *)
(***************************************************************************)
\* Python: t in s
Contains(s, t) ==
    \E i \in 1..(Len(s) - Len(t) + 1) : SubSeq(s, i, i + Len(t) - 1) = t

\* Python: s.startswith(t)
StartsWith(s, t) == Len(t) <= Len(s) /\ SubSeq(s, 1, Len(t)) = t

\* Python: s.endswith(t)
EndsWith(s, t) ==
    Len(t) <= Len(s) /\ SubSeq(s, Len(s) - Len(t) + 1, Len(s)) = t

\* Python: s.find(t) + 1 (0 when t does not occur in s)
Find(s, t) ==
    IF Contains(s, t)
    THEN CHOOSE i \in 1..(Len(s) - Len(t) + 1) :
            /\ SubSeq(s, i, i + Len(t) - 1) = t
            /\ \A j \in 1..(i - 1) : SubSeq(s, j, j + Len(t) - 1) # t
    ELSE 0

\* Python: s[i:] with a 1-based i
From(s, i) == SubSeq(s, i, Len(s))

\* str.lower() on one character
LowerChar(c) ==
    CASE c = "A" -> "a" [] c = "B" -> "b" [] c = "C" -> "c" [] c = "D" -> "d"
      [] c = "E" -> "e" [] c = "F" -> "f" [] c = "G" -> "g" [] c = "H" -> "h"
      [] c = "I" -> "i" [] c = "J" -> "j" [] c = "K" -> "k" [] c = "L" -> "l"
      [] c = "M" -> "m" [] c = "N" -> "n" [] c = "O" -> "o" [] c = "P" -> "p"
      [] c = "Q" -> "q" [] c = "R" -> "r" [] c = "S" -> "s" [] c = "T" -> "t"
      [] c = "U" -> "u" [] c = "V" -> "v" [] c = "W" -> "w" [] c = "X" -> "x"
      [] c = "Y" -> "y" [] c = "Z" -> "z"
      [] c = "Ç" -> "ç" [] c = "Ã" -> "ã" [] c = "Ê" -> "ê" [] c = "Õ" -> "õ"
      [] c = "Á" -> "á" [] c = "É" -> "é" [] c = "Í" -> "í" [] c = "Ó" -> "ó"
      [] c = "Ú" -> "ú"
      [] OTHER -> c

\* Python: s.lower()
RECURSIVE Lower(_)
Lower(s) ==
    IF Len(s) = 0 THEN ""
    ELSE LowerChar(SubSeq(s, 1, 1)) \o Lower(From(s, 2))

Digits == {"0", "1", "2", "3", "4", "5", "6", "7", "8", "9"}

AsciiLetters ==
    {"a", "b", "c", "d", "e", "f", "g", "h", "i", "j", "k", "l", "m", "n",
     "o", "p", "q", "r", "s", "t", "u", "v", "w", "x", "y", "z",
     "A", "B", "C", "D", "E", "F", "G", "H", "I", "J", "K", "L", "M", "N",
     "O", "P", "Q", "R", "S", "T", "U", "V", "W", "X", "Y", "Z"}

AccentedLetters ==
    {"ç", "ã", "ê", "õ", "á", "é", "í", "ó", "ú",
     "Ç", "Ã", "Ê", "Õ", "Á", "É", "Í", "Ó", "Ú", "º"}

\* the regex class \w (letters of any script, digits, underscore)
IsWordChar(c) == c \in AsciiLetters \cup Digits \cup AccentedLetters \cup {"_"}

\* the regex class \s
IsSpace(c) == c \in {" ", "\t", "\n", "\r"}

\* re.search(r"\b(19|20)\d{2}\b", s)
HasYear(s) ==
    \E i \in 1..(Len(s) - 3) :
        /\ SubSeq(s, i, i + 1) \in {"19", "20"}
        /\ SubSeq(s, i + 2, i + 2) \in Digits
        /\ SubSeq(s, i + 3, i + 3) \in Digits
        /\ (i = 1 \/ ~IsWordChar(SubSeq(s, i - 1, i - 1)))
        /\ (i + 3 = Len(s) \/ ~IsWordChar(SubSeq(s, i + 4, i + 4)))

\* Python: s.split(sep)[-1] for a one-character separator
RECURSIVE LastSegment(_, _)
LastSegment(s, sep) ==
    LET p == Find(s, sep) IN
    IF p = 0 THEN s ELSE LastSegment(From(s, p + 1), sep)

\* Python: s.rsplit(sep, 1)[0] for a one-character separator
BeforeLast(s, sep) ==
    IF ~Contains(s, sep) THEN s
    ELSE SubSeq(s, 1, Len(s) - Len(LastSegment(s, sep)) - 1)

\* position of the first of the characters `stops` in s, Len(s)+1 if none
FirstOf(s, stops) ==
    IF \E i \in 1..Len(s) : SubSeq(s, i, i) \in stops
    THEN CHOOSE i \in 1..Len(s) :
            /\ SubSeq(s, i, i) \in stops
            /\ \A j \in 1..(i - 1) : SubSeq(s, j, j) \notin stops
    ELSE Len(s) + 1

(***************************************************************************)
(* urllib.parse on the URL shapes the model uses                           *)
(***************************************************************************)
\* the scheme that ends before position p of url ("" when p is not the
\* position of the colon of a scheme)
SchemeAt(url, p) ==
    IF /\ p > 1
       /\ SubSeq(url, 1, 1) \in AsciiLetters
       /\ \A i \in 1..(p - 1) :
             SubSeq(url, i, i) \in AsciiLetters \cup Digits \cup {"+", "-", "."}
    THEN Lower(SubSeq(url, 1, p - 1))
    ELSE ""

\* urlsplit: the scheme of url ("" when it has none)
SchemeOf(url) == SchemeAt(url, Find(url, ":"))

\* url without "<scheme>:"
DropScheme(url, scheme) ==
    IF scheme = "" THEN url ELSE From(url, Len(scheme) + 2)

AfterScheme(url) == DropScheme(url, SchemeOf(url))

\* the netloc of a URL whose scheme was removed
NetlocOfRest(rest) ==
    IF StartsWith(rest, "//")
    THEN SubSeq(rest, 3, FirstOf(From(rest, 3), {"/", "?", "#"}) + 1)
    ELSE ""

\* urlparse(url).netloc
Netloc(url) == NetlocOfRest(AfterScheme(url))

\* what follows the netloc of a URL whose scheme was removed
AfterNetloc(rest) ==
    IF StartsWith(rest, "//")
    THEN From(rest, FirstOf(From(rest, 3), {"/", "?", "#"}) + 2)
    ELSE rest

\* s up to its first "?" or "#"
UpToQuery(s) == SubSeq(s, 1, FirstOf(s, {"?", "#"}) - 1)

\* urlparse(url).path
PathOf(url) == UpToQuery(AfterNetloc(AfterScheme(url)))

\* urllib.parse.uses_relative, as far as the model's URLs go
UsesRelative == {"http", "https", "ftp", "file", ""}

\* "<scheme>:" of the base
SchemePrefix(bscheme) == IF bscheme = "" THEN "" ELSE bscheme \o ":"

\* "<scheme>://<netloc>" of the base
JoinRoot(bscheme, bnetloc) ==
    SchemePrefix(bscheme) \o (IF bnetloc = "" THEN "" ELSE "//" \o bnetloc)

\* the directory of the base path, to which a relative path is appended
JoinDir(bnetloc, bpath) ==
    IF Contains(bpath, "/") THEN BeforeLast(bpath, "/") \o "/"
    ELSE IF bnetloc # "" THEN "/" ELSE ""

\* urljoin on the parts urlparse gives for base and url
JoinParts(base, url, bscheme, uscheme, bnetloc, unetloc, bpath) ==
    IF \/ (IF uscheme = "" THEN bscheme ELSE uscheme) # bscheme
       \/ (IF uscheme = "" THEN bscheme ELSE uscheme) \notin UsesRelative
    THEN url
    ELSE IF unetloc # ""
         THEN (IF uscheme = "" THEN SchemePrefix(bscheme) ELSE "") \o url
    ELSE IF uscheme # "" THEN url
    ELSE IF StartsWith(url, "/") THEN JoinRoot(bscheme, bnetloc) \o url
    ELSE IF StartsWith(url, "?")
         THEN JoinRoot(bscheme, bnetloc) \o bpath \o url
    ELSE IF StartsWith(url, "#")
         THEN SubSeq(base, 1, FirstOf(base, {"#"}) - 1) \o url
    ELSE JoinRoot(bscheme, bnetloc) \o JoinDir(bnetloc, bpath) \o url

\* urljoin(base, url) for URLs without dot segments
urljoin(base, url) ==
    IF base = "" THEN url
    ELSE IF url = "" THEN base
    ELSE JoinParts(base, url, SchemeOf(base), SchemeOf(url),
                   Netloc(base), Netloc(url), PathOf(base))

(***************************************************************************)
(* core/downloader.py : the file-name filter                               *)
(***************************************************************************)
\* unicodedata.normalize("NFKD", c).encode("ASCII", "ignore") on one
\* character: the base letter of an accented letter, nothing for any other
\* non-ASCII character
AsciiFold(c) ==
    CASE c = "ç" -> "c" [] c = "Ç" -> "C" [] c = "ã" -> "a" [] c = "Ã" -> "A"
      [] c = "ê" -> "e" [] c = "Ê" -> "E" [] c = "õ" -> "o" [] c = "Õ" -> "O"
      [] c = "á" -> "a" [] c = "Á" -> "A" [] c = "é" -> "e" [] c = "É" -> "E"
      [] c = "í" -> "i" [] c = "Í" -> "I" [] c = "ó" -> "o" [] c = "Ó" -> "O"
      [] c = "ú" -> "u" [] c = "Ú" -> "U"
      [] c = "º" -> "o"
      [] OTHER -> c

RECURSIVE FoldLowerDash(_)
\* downloader.py 77-78: accents folded, lower case, "-" replaced by " "
FoldLowerDash(s) ==
    IF Len(s) = 0 THEN ""
    ELSE LET c == LowerChar(AsciiFold(SubSeq(s, 1, 1)))
         IN (IF c = "-" THEN " " ELSE c) \o FoldLowerDash(From(s, 2))

RECURSIVE CollapseSpaces(_)
\* re.sub(r"\s+", " ", s)
CollapseSpaces(s) ==
    IF Len(s) = 0 THEN ""
    ELSE IF IsSpace(SubSeq(s, 1, 1))
         THEN IF Len(s) > 1 /\ IsSpace(SubSeq(s, 2, 2))
              THEN CollapseSpaces(From(s, 2))
              ELSE " " \o CollapseSpaces(From(s, 2))
         ELSE SubSeq(s, 1, 1) \o CollapseSpaces(From(s, 2))

\* Python: s.strip() of a string whose whitespace runs are single spaces
Strip(s) ==
    LET a == IF StartsWith(s, " ") THEN From(s, 2) ELSE s
    IN IF EndsWith(a, " ") THEN SubSeq(a, 1, Len(a) - 1) ELSE a

\* downloader.py 76-80
normalize_text(s) == Strip(CollapseSpaces(FoldLowerDash(s)))

\* downloader.py 58-71
FILENAME_BLACKLIST ==
    {"balanc", "demonstr", "extrato", "relatorio", "gestao", "contas",
     "financeiro", "orcament",
     "portaria", "resolucao", "resolucoes", "estatuto", "regimento",
     "normativo", "normativos",
     "membro-", "membros", "composicao", "certificado", "certificacao",
     "certificado-", "credenciamento",
     "lei", "decreto", "norma", "normas", "legislacao", "instrucao",
     "boletim", "informativo", "cartilha", "manual", "tutorial", "guia",
     "orientacao", "folder",
     "cronograma", "calendario", "recadastramento", "cadastro",
     "prova-de-vida",
     "planejamento", "informe", "censo", "organograma", "fluxograma",
     "formulario", "requerimento", "solicitacao", "declaracao",
     "termo", "convenio", "contrato", "licitacao", "edital", "concurso",
     "adesao",
     "noticia", "noticias", "evento", "publicacao", "revista",
     "gabarito", "resultado", "classificacao", "convocacao",
     "estudo", "atuarial", "governanca"}

\* downloader.py 82-90
is_probably_meeting_document(text_to_check) ==
    LET normalized_name == normalize_text(text_to_check)
    IN \A term \in FILENAME_BLACKLIST : ~Contains(normalized_name, term)

(***************************************************************************)
(* core/discovery.py : vocabulary and URL predicates                       *)
(***************************************************************************)
\* discovery.py 38-43
HEUR_KEYWORDS ==
    << "ata", "atas", "atareuni", "ata de", "ata da", "ata do",
       "reuni", "reunião", "reuniao", "comit", "consel", "invest",
       "investimento", "comite de investimento", "atas do comite",
       "publicac", "publica", "document", "documentos", "reunioes",
       "transpar" >>

\* discovery.py 45-49
BLACKLIST ==
    {"diariomunicipal", "diario-oficial", "licitacao", "licitacoes",
     "edital", "concurso", "legislacao", "legislação", "noticia", "noticias"}

\* discovery.py 51
FILE_EXTS == {".pdf", ".doc", ".docx", ".xls", ".xlsx"}

\* discovery.py 88-92
domain_of(url) == Netloc(url)

\* discovery.py 95-102
blacklisted(url) ==
    /\ url # ""
    /\ \E b \in BLACKLIST : Contains(Lower(url), b)

\* discovery.py 105-109
looks_like_file(url) ==
    /\ url # ""
    /\ \E ext \in FILE_EXTS : EndsWith(Lower(url), ext)

\* discovery.py 112-116
is_download_page(url) ==
    /\ url # ""
    /\ LET u == Lower(url)
       IN \/ Contains(u, "/download")
          \/ LastSegment(u, "/") = "download"
          \/ EndsWith(u, "/download/")

\* number of elements of the sequence ks that occur in s
CountIn(ks, s) == Cardinality({ i \in 1..Len(ks) : Contains(s, ks[i]) })

\* discovery.py 234-235
Months ==
    {"jane", "fev", "mar", "abr", "mai", "jun", "jul", "ago", "set", "out",
     "nov", "dez", "january", "feb", "march", "april", "may", "aug", "sep",
     "oct", "dec"}

\* discovery.py 217-254
element_text_score(text, href) ==
    LET t == Lower(text)
        h == Lower(href)
        full_text == t \o " " \o h
    IN   5 * CountIn(HEUR_KEYWORDS, t)
       + 4 * CountIn(HEUR_KEYWORDS, h)
       + (IF \E x \in {"publica", "public", "document", "docs", "arquivo"} :
                Contains(h, x) THEN 2 ELSE 0)
       - (IF blacklisted(h) THEN 50 ELSE 0)
       + (IF HasYear(t) THEN 8 ELSE 0)
       + (IF HasYear(h) THEN 8 ELSE 0)
       + (IF \E m \in Months : Contains(t, m) THEN 4 ELSE 0)
       + (IF \E m \in Months : Contains(h, m) THEN 4 ELSE 0)
       + (IF is_download_page(h) THEN 6 ELSE 0)
       + (IF Contains(full_text, "ata") /\ Contains(full_text, "comite")
               /\ Contains(full_text, "invest") THEN 150
          ELSE IF Contains(full_text, "comite") /\ Contains(full_text, "invest")
               THEN 120
          ELSE IF Contains(full_text, "ata")
                  /\ (Contains(full_text, "comite") \/ Contains(full_text, "conselho"))
               THEN 80
          ELSE IF Contains(full_text, "ata") THEN 50
          ELSE 0)

\* discovery.py 649
BOOST_NAV ==
    {"institucional", "publica", "document", "portal", "menu", "institut",
     "conselho", "comit", "conselhos"}

\* discovery.py 668: links scoring at most this much are dropped
RANK_MIN_SCORE == 10

\* discovery.py 668: at most this many links of one page are kept
RANK_LIMIT == 40

\* mutant of Take: the list is not cut
TakeAll(q, n) == q

\* Python: q[:n]
Take(q, n) == SubSeq(q, 1, IF Len(q) < n THEN Len(q) ELSE n)

RECURSIVE InsertByScore(_, _)
\* insertion that keeps the scores descending and equal scores in order
InsertByScore(sorted, e) ==
    IF sorted = << >> THEN << e >>
    ELSE IF Head(sorted)[1] >= e[1]
         THEN << Head(sorted) >> \o InsertByScore(Tail(sorted), e)
         ELSE << e >> \o sorted

RECURSIVE SortedByScoreDesc(_)
\* discovery.py 667: sorted(scored, key=lambda x: x[0], reverse=True)
SortedByScoreDesc(scored) ==
    IF scored = << >> THEN << >>
    ELSE InsertByScore(SortedByScoreDesc(SubSeq(scored, 1, Len(scored) - 1)),
                       scored[Len(scored)])

\* discovery.py 651: {base_domain, extra_allowed_domain}; NoDomain is the
\* default None of extra_allowed_domain, which no domain string equals
NoDomain == "<None>"

\* discovery.py 654-659: the links rank_internal_links_by_score scores
AllowedLink(base_domain, extra_allowed_domain, abs_url) ==
    /\ domain_of(abs_url) \in {base_domain, extra_allowed_domain}
    /\ ~blacklisted(abs_url)
    /\ ~looks_like_file(abs_url)

\* discovery.py 661-665: (score, abs_url) of one raw link
ScoredLink(link) ==
    << element_text_score(link[2], link[1])
         + (IF \E x \in BOOST_NAV : Contains(Lower(link[1]), x) THEN 15 ELSE 0),
       link[1] >>

RECURSIVE MapScored(_)
MapScored(raw) ==
    IF raw = << >> THEN << >>
    ELSE << ScoredLink(Head(raw)) >> \o MapScored(Tail(raw))

RECURSIVE Seconds(_)
Seconds(pairs) ==
    IF pairs = << >> THEN << >>
    ELSE << Head(pairs)[2] >> \o Seconds(Tail(pairs))

\* discovery.py 644-669; raw_links is a sequence of <<abs_url, text>>
rank_internal_links_by_score(base_domain, raw_links, extra_allowed_domain) ==
    LET Ok(link) == AllowedLink(base_domain, extra_allowed_domain, link[1])
        scored == MapScored(SelectSeq(raw_links, Ok))
        scored_sorted == SortedByScoreDesc(scored)
        Good(e) == e[1] > RANK_MIN_SCORE
    IN Take(Seconds(SelectSeq(scored_sorted, Good)), RANK_LIMIT)

(***************************************************************************)
(* core/downloader.py : the network and the file system                    *)
(***************************************************************************)
\* The output directories of two sites (app.main: setup_directories).
Dirs == {"data/SC/siteA", "data/SC/siteB"}

\* What the fake transport serves: url -> (resp.ok, resp.content).
\* Three URLs of one host, two of them with byte-identical content (the
\* third has a file name that holds a word of FILENAME_BLACKLIST), and one
\* URL of a second host with the first content; any other URL answers 404.
Web(url) ==
    CASE url = "https://a.gov.br/docs/ata-03.pdf"
            -> [ok |-> TRUE, content |-> "%PDF ata 03/2024"]
      [] url = "https://a.gov.br/download?f=17"
            -> [ok |-> TRUE, content |-> "%PDF ata 03/2024"]
      [] url = "https://a.gov.br/docs/ata-04-edital.pdf"
            -> [ok |-> TRUE, content |-> "%PDF ata 04/2024"]
      [] url = "https://b.gov.br/ata-03.pdf"
            -> [ok |-> TRUE, content |-> "%PDF ata 03/2024"]
      [] OTHER
            -> [ok |-> FALSE, content |-> ""]

\* The link lists handed to download_files_parallel; the last link of the
\* second list is a deferred resource (detail://<page-url>|<record-id>).
LinkLists ==
    { << "https://a.gov.br/docs/ata-03.pdf",
         "https://a.gov.br/download?f=17",
         "https://a.gov.br/docs/ata-04-edital.pdf" >>,
      << "https://b.gov.br/ata-03.pdf",
         "detail://https://a.gov.br/pagina|77" >> }

\* hashlib.sha1(b).hexdigest() on the contents the transport serves.
sha1_bytes(b) ==
    CASE b = "%PDF ata 03/2024" -> "ffaca1c8eb90cae09bed03ac67e0a7535af8862b"
      [] b = "%PDF ata 04/2024" -> "15d29ffec06391a8c1cbee8936f2f37870f25516"
      [] b = "%PDF ata 77"      -> "fd7e558f67bee3dd1309171720407d25b0ed7a0d"
      [] OTHER                  -> "da39a3ee5e6b4b0d3255bfef95601890afd80709"

\* downloader.py 567-568: urlparse(url).netloc
get_domain(url) == Netloc(url)

\* per-host limit of simultaneous connections
DOMAIN_LIMIT == 2

VARIABLES
    \* ---- file system -------------------------------------------------
    files,            \* dir -> set of [name, content]: the files on disk
    hash_index,       \* dir -> [exists, valid, hashes]: .hash_index.json
    \* ---- one download_files_parallel call ---------------------------
    dlPhase,          \* "idle" | "running" | "returned"
    out_path,         \* argument out_path
    links,            \* argument links
    workers,          \* argument workers
    persisted_hashes, \* local persisted_hashes
    seen_hashes,      \* local seen_hashes (shared by the worker threads)
    downloaded_files, \* local downloaded_files
    taskPc,           \* task -> position of download_one for links[task]
    taskRet,          \* task -> return value of download_one
    \* ---- history (observation only) ---------------------------------
    callNo,           \* number of calls started
    indexLoaded,      \* the call read an existing, well-formed index
    nWrites,          \* files written by the running call
    dupSkips,         \* tasks of the running call skipped as duplicates
    indexSaved,       \* the call rewrote the index at its end
    prev              \* summary of the call before the current one

dlVars == << files, hash_index, dlPhase, out_path, links, workers,
             persisted_hashes, seen_hashes, downloaded_files, taskPc,
             taskRet, callNo, indexLoaded, nWrites, dupSkips,
             indexSaved, prev >>

VARIABLES
    ruMode,       \* "parallel" (run_discovery_parallel) | "streaming"
    ruWorkers,    \* argument workers
    ruPc,         \* "running" | "returned" | "aborted" (an exception left)
    future,       \* site -> "pending" | "running" | "returned" | "raised"
    consumed,     \* sites whose future the as_completed loop has taken
    results,      \* parallel: the dict results, site name -> links
    yielded,      \* streaming: the (site, links) pairs yielded so far
    deliveries    \* site -> number of results delivered for it

ruVars == << ruMode, ruWorkers, ruPc, future, consumed, results, yielded,
             deliveries >>

VARIABLES
    exBase,       \* argument base_url of extract_pdfs_and_file_links_from_html
    exDoc,        \* the parsed document (BeautifulSoup's view of html_text)
    exNet,        \* "up" | "down": whether the host answers HEAD/GET
    exPc,         \* "idle" | "anchors" | "frames" | "regex" | "dedupe" | "returned"
    found,        \* local found
    exOut         \* the returned list

exVars == << exBase, exDoc, exNet, exPc, found, exOut >>

VARIABLES
    base_url,                  \* argument base_url of crawl_site
    max_depth,                 \* argument max_depth
    driver,                    \* "none" | "open" | "quit": the Selenium driver
    all_found_files,           \* local all_found_files
    to_visit_queue,            \* local to_visit_queue: sequence of <<url, depth>>
    visited_urls,              \* local visited_urls
    found_primary_target_page, \* local found_primary_target_page
    crPc,                      \* "idle" | "loop" | "returned"
    final_files,               \* the returned list
    fetched,                   \* history: entries handed to safe_get_text
    rendered,                  \* history: entries handed to driver.get
    appended,                  \* history: entries appended to the queue
    refused,                   \* history: candidates the depth test kept out
    session,                   \* "none" | "open" | "closed": the browser session
    abandon_signal,            \* the caller wants the current URL abandoned
    render_log,                \* history: <<url, "ok" | "failed">> per driver.get
    dynamic_log                \* history: what each dynamic extractor returned

crVars == << base_url, max_depth, driver, all_found_files, to_visit_queue,
             visited_urls, found_primary_target_page, crPc, final_files,
             fetched, rendered, appended, refused, session, abandon_signal,
             render_log, dynamic_log >>

VARIABLES
    htFn,         \* "safe_get_text" | "robust_request": the helper called
    htScript,     \* what the transport does on the 1st, 2nd, ... request
    htRequests,   \* requests sent so far by this call
    htPc,         \* "idle" | "try" | "backoff" | "returned" | "raised"
    htRet         \* the value returned

htVars == << htFn, htScript, htRequests, htPc, htRet >>

VARIABLES
    detail_url,   \* argument detail_url of download_detail_page
    ddPage,       \* what the page answers to GET: "form" | "portal" |
                  \* "pdf" | "down"
    ddAccepts,    \* the payload key download.php answers with a PDF, or "none"
    ddPc,         \* "idle" | "parse" | "single" | "get_page" | "post" |
                  \* "binary" | "returned" | "raised"
    ddLeft,       \* endpoints of candidates the POST loop has not reached
    ddEndpoint,   \* the endpoint the POST loop is at ("" before the first)
    ddPayload,    \* index of the last payload variant posted to it
    ddPosts,      \* the POST requests made so far: << endpoint, variant >>
    ddResp,       \* the response handed to _download_binary_response
    ddSeen0,      \* seen_hashes when download_detail_page was called
    ddSeen,       \* argument seen_hashes
    ddDisk,       \* names of the files in out_path
    ddRet         \* the value returned

ddVars == << detail_url, ddPage, ddAccepts, ddPc, ddLeft, ddEndpoint,
             ddPayload, ddPosts, ddResp, ddSeen0, ddSeen, ddDisk, ddRet >>

VARIABLES
    bnCalls,          \* call -> number of the response it was handed
    bnPc,             \* call -> "start" | "lock" | "test" | "insert" |
                      \*         "write" | "done"
    bnDest,           \* call -> local dest (a file name in out_path)
    bnSeen,           \* argument seen_hashes, shared by the calls
    seen_hashes_lock, \* argument seen_hashes_lock: the call holding it, or 0
    bnDisk,           \* the files of out_path: set of [name, content]
    bnClock,          \* int(time.time())
    bnRet,            \* call -> return value
    bnWrites          \* the writes that succeeded: sequence of <<call, dest>>

bnVars == << bnCalls, bnPc, bnDest, bnSeen, seen_hashes_lock, bnDisk,
             bnClock, bnRet, bnWrites >>

VARIABLES
    _domain_locks,      \* module dict _domain_locks: domain -> the number of
                        \* the semaphore stored for it, 0 when the key is absent
    _domain_locks_lock, \* module lock _domain_locks_lock: the call holding
                        \* it, or 0
    semaphores,         \* the BoundedSemaphore objects constructed so far:
                        \* sequence of [domain, value]
    gsDomain,           \* call -> argument domain of _get_domain_semaphore
    gsPc,               \* call -> "test" | "read" | "acquire" | "retest" |
                        \*         "create" | "store" | "reread" |
                        \*         "release" | "done"
    gsNew,              \* call -> the semaphore it constructed, not yet
                        \*         stored (0: none)
    gsLocked,           \* the calls that went through the lock
    gsRet               \* call -> the semaphore returned (0: not yet)

gsVars == << _domain_locks, _domain_locks_lock, semaphores, gsDomain, gsPc,
             gsNew, gsLocked, gsRet >>

vars == << dlVars, ruVars, exVars, crVars, htVars, ddVars, bnVars, gsVars >>

\* what the actions of one component leave alone: the other components
OutsideDL == << ruVars, exVars, crVars, htVars, ddVars, bnVars,
                gsVars >>
OutsideRunner == << dlVars, exVars, crVars, htVars, ddVars, bnVars,
                    gsVars >>
OutsideExtract == << dlVars, ruVars, crVars, htVars, ddVars, bnVars,
                     gsVars >>
OutsideCrawl == << dlVars, ruVars, exVars, htVars, ddVars, bnVars,
                   gsVars >>
OutsideHttp == << dlVars, ruVars, exVars, crVars, ddVars, bnVars,
                  gsVars >>
OutsideDetail == << dlVars, ruVars, exVars, crVars, htVars, bnVars,
                    gsVars >>
OutsideBinary == << dlVars, ruVars, exVars, crVars, htVars, ddVars,
                   gsVars >>
OutsideSemaphore == << dlVars, ruVars, exVars, crVars, htVars, ddVars,
                      bnVars >>

None == [none |-> TRUE]

NoCall == [out_path |-> "", links |-> << >>, saved |-> FALSE, nresults |-> 0]

Tasks == 1..Len(links)

Running == { t \in Tasks : taskPc[t] \notin {"queued", "done"} }

\* requests the transport sees in flight to host h
InFlight(h) ==
    Cardinality({ t \in Tasks :
                    taskPc[t] = "inflight" /\ get_domain(links[t]) = h })

Hosts == { get_domain(ls[i]) : ls \in LinkLists, i \in 1..2 }

DLInit ==
    /\ files = [d \in Dirs |-> {}]
    /\ hash_index = [d \in Dirs |-> [exists |-> FALSE, valid |-> FALSE, hashes |-> {}]]
    /\ dlPhase = "idle"
    /\ out_path = ""
    /\ links = << >>
    /\ workers = 0
    /\ persisted_hashes = {}
    /\ seen_hashes = {}
    /\ downloaded_files = << >>
    /\ taskPc = << >>
    /\ taskRet = << >>
    /\ callNo = 0
    /\ indexLoaded = FALSE
    /\ nWrites = 0
    /\ dupSkips = {}
    /\ indexSaved = FALSE
    /\ prev = NoCall

\* mutant of LoadIndex: one index shared by every output directory
LoadIndexGlobal(d) ==
    UNION { IF hash_index[e].exists /\ hash_index[e].valid
            THEN hash_index[e].hashes ELSE {} : e \in Dirs }

\* downloader.py 636-647: the hashes read from <out_path>/.hash_index.json;
\* a missing file or a file json.load rejects gives the empty set.
LoadIndex(d) ==
    IF hash_index[d].exists /\ hash_index[d].valid
    THEN hash_index[d].hashes
    ELSE {}

\* downloader.py 620-652 and 699-700: the prologue of the call, up to the
\* submission of one download_one task per link.
StartCall(d, ls, w) ==
    /\ dlPhase \in {"idle", "returned"}
    /\ callNo < MaxCalls
    /\ prev' = IF dlPhase = "returned"
               THEN [out_path |-> out_path, links |-> links,
                     saved |-> indexSaved, nresults |-> Len(downloaded_files)]
               ELSE prev
    /\ out_path' = d
    /\ links' = ls
    /\ workers' = w
    /\ persisted_hashes' = LoadIndex(d)
    /\ seen_hashes' = LoadIndex(d)
    /\ indexLoaded' = (hash_index[d].exists /\ hash_index[d].valid)
    /\ downloaded_files' = << >>
    /\ taskPc' = [t \in 1..Len(ls) |-> "queued"]
    /\ taskRet' = [t \in 1..Len(ls) |-> None]
    /\ nWrites' = 0
    /\ dupSkips' = {}
    /\ indexSaved' = FALSE
    /\ callNo' = callNo + 1
    /\ dlPhase' = "running"
    /\ UNCHANGED << files, hash_index, OutsideDL >>

\* what a task leaves alone besides its own position
TaskFrame ==
    UNCHANGED << hash_index, dlPhase, out_path, links, workers,
                 persisted_hashes, callNo, indexLoaded, indexSaved, prev,
                 OutsideDL >>

\* downloader.py 685-694 and 702-705: download_one returns `ret`; the
\* as_completed loop receives the futures in the order they complete and
\* appends every result that is not None.
Complete(t, ret) ==
    /\ taskPc' = [taskPc EXCEPT ![t] = "done"]
    /\ taskRet' = [taskRet EXCEPT ![t] = ret]
    /\ downloaded_files' = IF ret # None
                           THEN Append(downloaded_files, ret)
                           ELSE downloaded_files

\* downloader.py 699-700: a pool thread takes the oldest queued task; at
\* most `workers` tasks run at a time.
TaskStart(t) ==
    /\ dlPhase = "running"
    /\ taskPc[t] = "queued"
    /\ \A u \in Tasks : u < t => taskPc[u] # "queued"
    /\ Cardinality(Running) < workers
    /\ taskPc' = [taskPc EXCEPT ![t] = "get"]
    /\ UNCHANGED << files, seen_hashes, taskRet, downloaded_files, nWrites, dupSkips >>
    /\ TaskFrame

\* requests mounts a transport adapter for the prefixes http:// and
\* https:// only (the URLs of the model are lower-case)
HasAdapter(url) == StartsWith(url, "http://") \/ StartsWith(url, "https://")

\* downloader.py 664: requests.get is issued; the request is in flight.
\* Without an adapter for the URL requests.get raises InvalidSchema before
\* anything is sent, and the except clause (692-694) returns None.
SendRequest(t) ==
    /\ dlPhase = "running"
    /\ taskPc[t] = "get"
    /\ IF HasAdapter(links[t])
       THEN /\ taskPc' = [taskPc EXCEPT ![t] = "inflight"]
            /\ UNCHANGED << taskRet, downloaded_files >>
       ELSE Complete(t, None)
    /\ UNCHANGED << files, seen_hashes, nWrites, dupSkips >>
    /\ TaskFrame

\* downloader.py 664-669: the response arrives; a failed or empty response
\* ends the task with None, otherwise the content is hashed.
RecvResponse(t) ==
    /\ dlPhase = "running"
    /\ taskPc[t] = "inflight"
    /\ LET resp == Web(links[t]) IN
       IF ~resp.ok \/ resp.content = ""
       THEN Complete(t, None)
       ELSE /\ taskPc' = [taskPc EXCEPT ![t] = "check"]
            /\ UNCHANGED << taskRet, downloaded_files >>
    /\ UNCHANGED << files, seen_hashes, nWrites, dupSkips >>
    /\ TaskFrame

\* downloader.py 672-674: if file_hash in seen_hashes: return None
CheckSeen(t) ==
    /\ dlPhase = "running"
    /\ taskPc[t] = "check"
    /\ LET file_hash == sha1_bytes(Web(links[t]).content) IN
       IF file_hash \in seen_hashes
       THEN /\ Complete(t, None)
            /\ dupSkips' = dupSkips \cup {t}
       ELSE /\ taskPc' = [taskPc EXCEPT ![t] = "add"]
            /\ UNCHANGED << taskRet, downloaded_files, dupSkips >>
    /\ UNCHANGED << files, seen_hashes, nWrites >>
    /\ TaskFrame

\* downloader.py 676: seen_hashes.add(file_hash)
AddSeen(t) ==
    /\ dlPhase = "running"
    /\ taskPc[t] = "add"
    /\ seen_hashes' = seen_hashes \cup {sha1_bytes(Web(links[t]).content)}
    /\ taskPc' = [taskPc EXCEPT ![t] = "write"]
    /\ UNCHANGED << files, taskRet, downloaded_files, nWrites, dupSkips >>
    /\ TaskFrame

\* downloader.py 679: f"doc_{file_hash[:12]}.pdf"
DocName(file_hash) == "doc_" \o SubSeq(file_hash, 1, 12) \o ".pdf"

\* downloader.py 679-690: the file is written under the hash-derived name
\* and the DownloadResult is returned.
WriteFile(t) ==
    /\ dlPhase = "running"
    /\ taskPc[t] = "write"
    /\ LET content  == Web(links[t]).content
           filename == DocName(sha1_bytes(content))
       IN /\ files' = [files EXCEPT ![out_path] =
                         { f \in @ : f.name # filename }
                           \cup {[name |-> filename, content |-> content]}]
          /\ Complete(t, [file_path |-> out_path \o "/" \o filename,
                          file_url  |-> links[t]])
    /\ nWrites' = nWrites + 1
    /\ UNCHANGED << seen_hashes, dupSkips >>
    /\ TaskFrame

\* downloader.py 682-683 and 692-694: open or write raises (disk full,
\* permissions); the except clause returns None.
WriteFileFails(t) ==
    /\ dlPhase = "running"
    /\ taskPc[t] = "write"
    /\ Complete(t, None)
    /\ UNCHANGED << files, seen_hashes, nWrites, dupSkips >>
    /\ TaskFrame

\* mutant of IndexToSave: only the hashes read at the start are written back
IndexToSaveLoadedOnly == persisted_hashes

\* downloader.py 712-714: {h: True for h in seen_hashes}
IndexToSave == seen_hashes

FinishFrame ==
    UNCHANGED << files, out_path, links, workers, persisted_hashes,
                 seen_hashes, downloaded_files, taskPc, taskRet,
                 callNo, indexLoaded, nWrites, dupSkips, prev, OutsideDL >>

\* downloader.py 707-722: every future was consumed; the index is rewritten
\* and the results are returned.
Finish ==
    /\ dlPhase = "running"
    /\ \A t \in Tasks : taskPc[t] = "done"
    /\ hash_index' = [hash_index EXCEPT ![out_path] =
                        [exists |-> TRUE, valid |-> TRUE, hashes |-> IndexToSave]]
    /\ indexSaved' = TRUE
    /\ dlPhase' = "returned"
    /\ FinishFrame

\* downloader.py 710-720: writing the index raises; the except clause logs
\* it.  open(..., "w") either failed (file untouched) or had truncated the
\* file before the failure; json.dump hands the entries to the file one
\* after the other, so the file is left with the entries written before the
\* failure and without the closing brace (it no longer parses).
FinishSaveFails ==
    /\ dlPhase = "running"
    /\ \A t \in Tasks : taskPc[t] = "done"
    /\ \/ hash_index' = hash_index
       \/ \E written \in SUBSET IndexToSave :
             hash_index' = [hash_index EXCEPT ![out_path] =
                              [exists |-> TRUE, valid |-> FALSE, hashes |-> written]]
    /\ indexSaved' = FALSE
    /\ dlPhase' = "returned"
    /\ FinishFrame

DLNext ==
    \/ \E d \in Dirs, ls \in LinkLists, w \in {1, MaxWorkers} : StartCall(d, ls, w)
    \/ \E t \in Tasks : TaskStart(t)
    \/ \E t \in Tasks : SendRequest(t)
    \/ \E t \in Tasks : RecvResponse(t)
    \/ \E t \in Tasks : CheckSeen(t)
    \/ \E t \in Tasks : AddSeen(t)
    \/ \E t \in Tasks : WriteFile(t)
    \/ \E t \in Tasks : WriteFileFails(t)
    \/ Finish
    \/ FinishSaveFails

(***************************************************************************)
(* Claims about download_files_parallel (checked under SpecDL)             *)
(***************************************************************************)
ContentOf(t) == Web(links[t]).content

Fetched(t) == Web(links[t]).ok /\ ContentOf(t) # ""

\* the task passed the duplicate check and its write raised
WriteFailed(t) ==
    /\ taskPc[t] = "done"
    /\ Fetched(t)
    /\ t \notin dupSkips
    /\ taskRet[t] = None

ResultsWith(c) ==
    { k \in 1..Len(downloaded_files) :
        Web(downloaded_files[k].file_url).content = c }

FilesWith(d, c) == { f \in files[d] : f.content = c }

\* C1: within one call no two returned DownloadResults carry byte-identical
\* content, under every interleaving of the worker threads.
C1_NoTwoResultsSameContent ==
    \A i, j \in 1..Len(downloaded_files) :
        i # j => Web(downloaded_files[i].file_url).content
                   # Web(downloaded_files[j].file_url).content

\* C2: the requests simultaneously in flight to one host never exceed
\* DOMAIN_LIMIT.
C2_PerHostLimit == \A h \in Hosts : InFlight(h) <= DOMAIN_LIMIT

\* C3: a second call on the same links and the same directory, which loads
\* the index the first call wrote, returns no DownloadResult and writes no
\* file.
C3_Idempotent ==
    ( /\ dlPhase # "idle"
      /\ prev.out_path = out_path
      /\ prev.links = links
      /\ prev.saved
      /\ indexLoaded )
    => (downloaded_files = << >> /\ nWrites = 0)

C3_Witness ==
    /\ dlPhase = "returned"
    /\ prev.out_path = out_path
    /\ prev.links = links
    /\ prev.saved
    /\ indexLoaded
    /\ prev.nresults > 0
    /\ Cardinality(dupSkips) = 3

\* C19: download_files_parallel reads the directory's index before any
\* worker starts and rewrites it after all workers finished, and nothing
\* writes it in between; the index the call leaves behind is well formed and
\* holds every hash the index file held when the call started and every
\* hash recorded during the call, also when the file could not be read at
\* the start.
C19_IndexLifecycle ==
    /\ [][ (dlPhase' = "running" /\ dlPhase # "running") =>
              /\ persisted_hashes' = LoadIndex(out_path')
              /\ \A t \in 1..Len(taskPc') : taskPc'[t] = "queued" ]_vars
    /\ [][ (dlPhase = "running" /\ dlPhase' = "running") =>
              hash_index' = hash_index ]_vars
    /\ [][ (dlPhase = "running" /\ dlPhase' = "returned") =>
              /\ \A t \in Tasks : taskPc[t] = "done"
              /\ hash_index'[out_path].exists
              /\ hash_index'[out_path].valid
              /\ (hash_index[out_path].hashes \cup seen_hashes)
                    \subseteq hash_index'[out_path].hashes ]_vars

\* C8: two distinct URLs of one call with byte-identical content, not seen
\* before, leave exactly one file with that content in the directory and
\* exactly one DownloadResult for it (no write having failed).
C8_DedupExactlyOne ==
    dlPhase = "returned" =>
        \A t, u \in Tasks :
            ( /\ t # u
              /\ links[t] # links[u]
              /\ Fetched(t) /\ Fetched(u)
              /\ ContentOf(t) = ContentOf(u)
              /\ sha1_bytes(ContentOf(t)) \notin persisted_hashes
              /\ \A v \in Tasks : ~WriteFailed(v) )
            => /\ Cardinality(FilesWith(out_path, ContentOf(t))) = 1
               /\ Cardinality(ResultsWith(ContentOf(t))) = 1

\* C9: the seen-hash set of a call comes from the index of its own output
\* directory only: a task is skipped as a duplicate only for a hash of that
\* directory's index or of another task of the same call, and content new to
\* the directory is saved in it exactly once whatever other directories hold.
C9_DedupScopedPerDir ==
    /\ dlPhase = "running" =>
          /\ persisted_hashes \subseteq hash_index[out_path].hashes
          /\ (persisted_hashes # {} => hash_index[out_path].exists)
    /\ \A t \in dupSkips :
          \/ sha1_bytes(ContentOf(t)) \in persisted_hashes
          \/ \E u \in Tasks \ {t} :
                /\ ContentOf(u) = ContentOf(t)
                /\ taskPc[u] \in {"write", "done"}
                /\ u \notin dupSkips
    /\ dlPhase = "returned" =>
          \A t \in Tasks :
             ( /\ Fetched(t)
               /\ sha1_bytes(ContentOf(t)) \notin persisted_hashes
               /\ \A v \in Tasks : ~WriteFailed(v) )
             => Cardinality(FilesWith(out_path, ContentOf(t))) = 1

C9_Witness ==
    /\ dlPhase = "returned"
    /\ prev.out_path # "" /\ prev.out_path # out_path
    /\ prev.saved
    /\ sha1_bytes("%PDF ata 03/2024") \in hash_index[prev.out_path].hashes
    /\ \A d \in Dirs : Cardinality(FilesWith(d, "%PDF ata 03/2024")) = 1
    /\ nWrites > 0

(***************************************************************************)
(* core/parallel_runner.py : run_discovery_parallel, run_discovery_streaming *)
(***************************************************************************)
\* the sites submitted, in list order; names are unique (app.py RPPS_SITES)
Sites == 1..MaxSites

SiteName(s) == "site" \o ToString(s)

\* what crawl_func(site["url"]) returns for site s when it does not raise
CrawlLinks(s) ==
    IF s = 1 THEN << "https://a.gov.br/docs/ata-03.pdf",
                     "https://a.gov.br/download?f=17" >>
    ELSE IF s = 3 THEN << "https://" \o SiteName(s) \o ".gov.br/ata.pdf" >>
    ELSE << >>

\* no result stored for a site (never a link list)
NoResult == << "absent" >>

RunnerInit ==
    /\ ruMode \in {"parallel", "streaming"}
    /\ ruWorkers \in 1..2
    /\ ruPc = "running"
    /\ future = [s \in Sites |-> "pending"]
    /\ consumed = {}
    /\ results = << >>
    /\ yielded = << >>
    /\ deliveries = [s \in Sites |-> 0]

\* parallel_runner.py 13-17 / 42-47: the pool runs the submitted crawls in
\* submission order, at most `workers` at a time.
CrawlStart(s) ==
    /\ ruPc = "running"
    /\ future[s] = "pending"
    /\ \A u \in Sites : u < s => future[u] # "pending"
    /\ Cardinality({ u \in Sites : future[u] = "running" }) < ruWorkers
    /\ future' = [future EXCEPT ![s] = "running"]
    /\ UNCHANGED << ruMode, ruWorkers, ruPc, consumed, results, yielded, deliveries, OutsideRunner >>

\* crawl_func returns its link list
CrawlReturns(s) ==
    /\ future[s] = "running"
    /\ future' = [future EXCEPT ![s] = "returned"]
    /\ UNCHANGED << ruMode, ruWorkers, ruPc, consumed, results, yielded, deliveries, OutsideRunner >>

\* crawl_func raises
CrawlRaises(s) ==
    /\ future[s] = "running"
    /\ future' = [future EXCEPT ![s] = "raised"]
    /\ UNCHANGED << ruMode, ruWorkers, ruPc, consumed, results, yielded, deliveries, OutsideRunner >>

\* mutant of FutureResult: fut.result() is called outside any try block
FutureResultUncaught(s) ==
    [escapes |-> future[s] = "raised", links |-> CrawlLinks(s)]

\* parallel_runner.py 21-25 / 51-55: try: links = fut.result()
\* except Exception: links = []
FutureResult(s) ==
    [escapes |-> FALSE,
     links   |-> IF future[s] = "raised" THEN << >> ELSE CrawlLinks(s)]

\* parallel_runner.py 19-27: as_completed yields a finished future and the
\* links (or the empty list) are stored under the site's name.
Collect(s) ==
    /\ ruMode = "parallel"
    /\ ruPc = "running"
    /\ future[s] \in {"returned", "raised"}
    /\ s \notin consumed
    /\ consumed' = consumed \cup {s}
    /\ LET r == FutureResult(s) IN
       IF r.escapes
       THEN /\ ruPc' = "aborted"
            /\ UNCHANGED << results, deliveries >>
       ELSE /\ results' = [n \in DOMAIN results \cup {SiteName(s)} |->
                              IF n = SiteName(s) THEN r.links ELSE results[n]]
            /\ deliveries' = [deliveries EXCEPT ![s] = @ + 1]
            /\ ruPc' = ruPc
    /\ UNCHANGED << ruMode, ruWorkers, future, yielded, OutsideRunner >>

\* parallel_runner.py 49-56: as_completed yields a finished future and the
\* generator yields (site, links) to its consumer.
Yield(s) ==
    /\ ruMode = "streaming"
    /\ ruPc = "running"
    /\ future[s] \in {"returned", "raised"}
    /\ s \notin consumed
    /\ consumed' = consumed \cup {s}
    /\ LET r == FutureResult(s) IN
       IF r.escapes
       THEN /\ ruPc' = "aborted"
            /\ UNCHANGED << yielded, deliveries >>
       ELSE /\ yielded' = Append(yielded, << s, r.links >>)
            /\ deliveries' = [deliveries EXCEPT ![s] = @ + 1]
            /\ ruPc' = ruPc
    /\ UNCHANGED << ruMode, ruWorkers, future, results, OutsideRunner >>

\* parallel_runner.py 29 / 56: every future was consumed: the function
\* returns results (the generator is exhausted).
RunnerReturn ==
    /\ ruPc = "running"
    /\ consumed = Sites
    /\ ruPc' = "returned"
    /\ UNCHANGED << ruMode, ruWorkers, future, consumed, results, yielded, deliveries, OutsideRunner >>

RunnerNext ==
    \/ \E s \in Sites : CrawlStart(s)
    \/ \E s \in Sites : CrawlReturns(s)
    \/ \E s \in Sites : CrawlRaises(s)
    \/ \E s \in Sites : Collect(s)
    \/ \E s \in Sites : Yield(s)
    \/ RunnerReturn

\* the result delivered for site s, in either mode
Delivered(s) ==
    IF ruMode = "parallel"
    THEN IF SiteName(s) \in DOMAIN results THEN results[SiteName(s)]
         ELSE NoResult
    ELSE IF \E k \in 1..Len(yielded) : yielded[k][1] = s
         THEN yielded[CHOOSE k \in 1..Len(yielded) : yielded[k][1] = s][2]
         ELSE NoResult

RunnerSafe ==
    /\ ruPc # "aborted"
    /\ \A s \in Sites :
          /\ deliveries[s] <= 1
          /\ deliveries[s] = 1 =>
                Delivered(s) = IF future[s] = "raised" THEN << >>
                               ELSE CrawlLinks(s)
          /\ ruPc = "returned" => deliveries[s] = 1

\* C10: a crawl that raises yields the empty list for its site, every other
\* site's result is delivered, no exception leaves the runner, and every
\* submitted site eventually has exactly one result.
C10_FaultIsolation == [] RunnerSafe /\ <> (ruPc = "returned")

C10_Witness ==
    /\ ruPc = "returned"
    /\ \E s \in Sites : future[s] = "raised" /\ Delivered(s) = << >>
    /\ \E s \in Sites : future[s] = "returned" /\ Len(Delivered(s)) = 1

\* app.py 81-94: main holds a site's links once run_discovery_parallel has
\* returned its dict; a consumer of run_discovery_streaming holds them as
\* soon as the pair is yielded (parallel_runner.py 56).
HandedToOrchestrator(s) ==
    IF ruMode = "parallel"
    THEN ruPc = "returned" /\ SiteName(s) \in DOMAIN results
    ELSE \E k \in 1..Len(yielded) : yielded[k][1] = s

\* C11: in the pipeline app.main runs (run_discovery_parallel), a site whose
\* finished crawl the collecting loop has taken is in the orchestrator's
\* hands at once, whether or not the crawls of other sites are still
\* pending or running (no barrier on the slowest site).
C11_StreamingNoBarrier ==
    \A s \in Sites :
        (ruMode = "parallel" /\ s \in consumed) => HandedToOrchestrator(s)

(***************************************************************************)
(* app.py : main, discovery of every site followed by the downloads        *)
(***************************************************************************)
\* app.py 101 (setup_directories): the output directory of a site
SiteDir(s) == IF s = 1 THEN "data/SC/siteA" ELSE "data/SC/siteB"

\* the download of a site may start while crawls are still running
DiscoveryReturnedOrNot == ruMode = "parallel"

\* app.py 81-94: run_discovery_parallel has returned its dict
DiscoveryReturned == ruMode = "parallel" /\ ruPc = "returned"

\* app.py 94-110: the loop over all_sites_links takes a site that was not
\* taken yet; a site without links is skipped (97-99), for any other site
\* download_files_parallel is called with its links and its directory.
\* main passes workers=8; here the argument is 1 or MaxWorkers.
MainDownload(s, w) ==
    /\ DiscoveryReturned
    /\ SiteName(s) \in DOMAIN results
    /\ results[SiteName(s)] # << >>
    /\ out_path # SiteDir(s)
    /\ prev.out_path # SiteDir(s)
    /\ StartCall(SiteDir(s), results[SiteName(s)], w)

PipelineNext ==
    \/ \E s \in Sites : CrawlStart(s)
    \/ \E s \in Sites : CrawlReturns(s)
    \/ \E s \in Sites : CrawlRaises(s)
    \/ \E s \in Sites : Collect(s)
    \/ RunnerReturn
    \/ \E s \in Sites, w \in {1, MaxWorkers} : MainDownload(s, w)
    \/ \E t \in Tasks : TaskStart(t)
    \/ \E t \in Tasks : SendRequest(t)
    \/ \E t \in Tasks : RecvResponse(t)
    \/ \E t \in Tasks : CheckSeen(t)
    \/ \E t \in Tasks : AddSeen(t)
    \/ \E t \in Tasks : WriteFile(t)
    \/ \E t \in Tasks : WriteFileFails(t)
    \/ Finish
    \/ FinishSaveFails

\* the site whose links download_files_parallel was called with
DownloadingSite == CHOOSE s \in Sites : SiteDir(s) = out_path /\ s \in {1, 3}

\* C34: at most `workers` crawls run at a time in run_discovery_parallel; at
\* most `workers` download_one calls run at a time in
\* download_files_parallel; the call of a site has one task per link of the
\* site, a task issues its request once, and a site gets one call; a call
\* starts only after the site's crawl returned, with the links it returned.
C34_BoundedParallelism ==
    /\ [] (Cardinality({ s \in Sites : future[s] = "running" }) <= ruWorkers)
    /\ [] (Cardinality(Running) <= workers)
    /\ [] (dlPhase # "idle" =>
             /\ ruPc = "returned"
             /\ future[DownloadingSite] = "returned"
             /\ links = CrawlLinks(DownloadingSite)
             /\ DOMAIN taskPc = 1..Len(CrawlLinks(DownloadingSite)))
    /\ [][ \A t \in Tasks :
              (callNo' = callNo /\ taskPc[t] \notin {"queued", "get"})
                 => taskPc'[t] \notin {"queued", "get"} ]_vars
    /\ [][ callNo' # callNo =>
              /\ out_path' # out_path
              /\ callNo' <= Cardinality({ s \in Sites : CrawlLinks(s) # << >> })
         ]_vars

\* one worker for the three crawls and one worker for the two links of the
\* first site: a download_one call runs while the other link waits
C34_Witness ==
    /\ ruWorkers = 1
    /\ dlPhase = "running"
    /\ workers = 1
    /\ Len(links) = 2
    /\ \E t, u \in Tasks : taskPc[t] = "inflight" /\ taskPc[u] = "queued"

(***************************************************************************)
(* core/discovery.py : extract_pdfs_and_file_links_from_html               *)
(***************************************************************************)
\* largest number of elements of one HTML document
MaxElems == 2

\* the site the documents are fetched from
ExBaseUrl == "https://rpps.gov.br/transparencia/"

\* The elements a document is built from.  tag "a": an anchor with href and
\* text; tag "iframe": a frame with src; tag "script": a script whose text
\* holds the literal `lit`.
Anchor(href, text) == [tag |-> "a", ref |-> href, text |-> text]
Frame(src) == [tag |-> "iframe", ref |-> src, text |-> ""]
Script(lit) == [tag |-> "script", ref |-> lit, text |-> ""]

ExElements ==
    { Anchor("/docs/ata-01.pdf", " Ata 01 "),
      Anchor("/docs/balanco-2023.pdf", "Balanço 2023"),
      Anchor("https://rpps.gov.br/docs/balanco-2023.pdf", "Balanço 2023"),
      Anchor("https://rpps.gov.br/docs/ata-04.pdf", "Relatório e ata"),
      Anchor("/download?id=7", "Baixar ata"),
      Frame("/docs/ata-02.pdf"),
      Frame("/docs/extrato-01.pdf"),
      Frame("/docs/edital-05.pdf"),
      Script("https://rpps.gov.br/docs/ata-03.PDF") }

\* Scenario A: a seed page whose only anchors point to ata-03-2024.pdf and
\* balanco-2023.pdf, the hrefs written as relative URLs
ScenarioARelative ==
    << Anchor("ata-03-2024.pdf", "Ata 03/2024"),
       Anchor("balanco-2023.pdf", "Balanço 2023") >>

\* Scenario A with the hrefs written as absolute URLs
ScenarioAAbsolute ==
    << Anchor("https://rpps.gov.br/transparencia/ata-03-2024.pdf",
              "Ata 03/2024"),
       Anchor("https://rpps.gov.br/transparencia/balanco-2023.pdf",
              "Balanço 2023") >>

\* Scenario B: a seed page with an anchor to /pagina?id=77 (a numeric record
\* identifier, no category parameter, no document extension)
ScenarioB == << Anchor("/pagina?id=77", "Ata nº 77") >>

RECURSIVE SeqsUpTo(_, _)
\* the sequences over S of length at most n
SeqsUpTo(S, n) ==
    IF n = 0 THEN { << >> }
    ELSE LET shorter == SeqsUpTo(S, n - 1)
         IN shorter \cup { Append(q, e) : q \in shorter, e \in S }

\* html_text: the document as the server sends it
RenderElement(e) ==
    CASE e.tag = "a" ->
             "<a href=\"" \o e.ref \o "\">" \o e.text \o "</a>"
      [] e.tag = "iframe" ->
             "<iframe src=\"" \o e.ref \o "\"></iframe>"
      [] OTHER ->
             "<script>var u = '" \o e.ref \o "';</script>"

RECURSIVE RenderDoc(_)
RenderDoc(doc) ==
    IF doc = << >> THEN ""
    ELSE RenderElement(Head(doc)) \o "\n" \o RenderDoc(Tail(doc))

html_text(doc) ==
    IF doc = << >> THEN "" ELSE "<html><body>\n" \o RenderDoc(doc) \o "</body></html>"

RECURSIVE StripWs(_)
\* Python: s.strip()
StripWs(s) ==
    IF Len(s) = 0 THEN s
    ELSE IF IsSpace(SubSeq(s, 1, 1)) THEN StripWs(From(s, 2))
    ELSE IF IsSpace(SubSeq(s, Len(s), Len(s)))
         THEN StripWs(SubSeq(s, 1, Len(s) - 1))
    ELSE s

RECURSIVE unquote(_)
\* urllib.parse.unquote on the escapes the model's URLs carry
unquote(s) ==
    IF Len(s) = 0 THEN ""
    ELSE IF Len(s) >= 3 /\ Lower(SubSeq(s, 1, 3)) = "%20"
         THEN " " \o unquote(From(s, 4))
    ELSE IF Len(s) >= 3 /\ Lower(SubSeq(s, 1, 3)) = "%2d"
         THEN "-" \o unquote(From(s, 4))
    ELSE SubSeq(s, 1, 1) \o unquote(From(s, 2))

\* The web as the HEAD request with allow_redirects=True sees it: the final
\* URL and the Content-Type of url.
HeadOf(url) ==
    CASE url = "https://rpps.gov.br/download?id=7" ->
             [url |-> "https://rpps.gov.br/docs/relatorio%20anual.pdf",
              ct  |-> "application/pdf"]
      [] looks_like_file(url) -> [url |-> url, ct |-> "application/pdf"]
      [] OTHER -> [url |-> url, ct |-> "text/html; charset=utf-8"]

\* Python None where a URL string is expected
NoUrl == ""

\* discovery.py 133-154; NoUrl (Python None, falsy like "") when the host
\* does not answer (HEAD and the GET fallback both raise) or the final URL
\* is not a file
resolve_redirect_to_file(url, net) ==
    IF net = "down" THEN NoUrl
    ELSE LET r == HeadOf(url)
             final_url == r.url
             ct == Lower(r.ct)
         IN IF \/ \E ext \in FILE_EXTS : EndsWith(Lower(final_url), ext)
               \/ Contains(ct, "application/pdf")
               \/ Contains(ct, "application/octet-stream")
            THEN final_url
            ELSE NoUrl

\* discovery.py 183-185, 196-198:
\* unquote(urlparse(final_url).path.split('/')[-1])
decoded_file_name(final_url) == unquote(LastSegment(PathOf(final_url), "/"))

\* discovery.py 170: (a.get_text(strip=True) or "").lower()
AnchorText(e) == Lower(StripWs(e.text))

\* discovery.py 186, 199
FinalNameAccepted(final_url) ==
    is_probably_meeting_document(decoded_file_name(final_url))

\* discovery.py 181-187, 194-200: the resolved URL is kept when it exists
\* and its file name passes the filter
FilteredFinal(final_url) ==
    IF final_url # NoUrl /\ FinalNameAccepted(final_url)
    THEN << final_url >>
    ELSE << >>

\* discovery.py 172-187: what an anchor with URL abs_url and text `text`
\* appends to found
AnchorFound(abs_url, text, net) ==
    IF blacklisted(abs_url) THEN << >>
    ELSE IF ~is_probably_meeting_document(text) THEN << >>
    ELSE IF \/ looks_like_file(abs_url)
            \/ Contains(text, "download")
            \/ Contains(text, "baixar")
            \/ Contains(text, "ata nº")
         THEN FilteredFinal(resolve_redirect_to_file(abs_url, net))
    ELSE << >>

\* discovery.py 166-187: what one anchor appends to found
FromAnchor(page_url, e, net) ==
    AnchorFound(urljoin(page_url, StripWs(e.ref)), AnchorText(e), net)

\* discovery.py 191-200: what a frame with source src, URL abs_url appends
FrameFound(src, abs_url, net) ==
    IF src # "" /\ ~blacklisted(abs_url) /\ looks_like_file(abs_url)
    THEN FilteredFinal(resolve_redirect_to_file(abs_url, net))
    ELSE << >>

\* discovery.py 189-200: what one iframe/embed/object appends to found
FromFrame(page_url, e, net) ==
    FrameFound(e.ref, urljoin(page_url, e.ref), net)

\* the characters the regex class [^"'<>\s] excludes
UrlStops == {"\"", "'", "<", ">", " ", "\t", "\n", "\r"}

\* the alternatives of \.(?:pdf|docx?|xlsx?), the longer first
RegexExts == << ".pdf", ".docx", ".doc", ".xlsx", ".xls" >>

\* length of the match of \.(?:pdf|docx?|xlsx?) at the head of s, 0 if none
ExtMatchLen(s) ==
    LET l == Lower(SubSeq(s, 1, IF Len(s) < 5 THEN Len(s) ELSE 5))
        hits == { i \in 1..Len(RegexExts) : StartsWith(l, RegexExts[i]) }
    IN IF hits = {} THEN 0
       ELSE Len(RegexExts[CHOOSE i \in hits : \A j \in hits : i <= j])

\* length of the match of https?://[^"'<>\s]+\.(?:pdf|docx?|xlsx?) at the
\* head of s (0 if none): the greedy + gives up characters from the right
\* until the extension matches
UrlMatchLen(s) ==
    LET l == Lower(SubSeq(s, 1, IF Len(s) < 8 THEN Len(s) ELSE 8))
        start == IF StartsWith(l, "https://") THEN 8
                 ELSE IF StartsWith(l, "http://") THEN 7 ELSE 0
        run == FirstOf(From(s, start + 1), UrlStops) - 1
        ks == { k \in 1..run : ExtMatchLen(From(s, start + k + 1)) > 0 }
    IN IF start = 0 \/ ks = {} THEN 0
       ELSE LET k == CHOOSE k \in ks : \A j \in ks : j <= k
            IN start + k + ExtMatchLen(From(s, start + k + 1))

\* the positions of s where the pattern matches
MatchStarts(s) ==
    { i \in 1..(Len(s) - 3) :
        /\ Lower(SubSeq(s, i, i + 3)) = "http"
        /\ UrlMatchLen(From(s, i)) > 0 }

RECURSIVE MatchesFrom(_, _, _)
\* the leftmost non-overlapping matches of s at or after position pos
MatchesFrom(s, starts, pos) ==
    LET later == { i \in starts : i >= pos }
    IN IF later = {} THEN << >>
       ELSE LET i == CHOOSE i \in later : \A j \in later : i <= j
                n == UrlMatchLen(From(s, i))
            IN << SubSeq(s, i, i + n - 1) >> \o MatchesFrom(s, starts, i + n)

\* discovery.py 202: re.findall(<the pattern>, html_text, re.IGNORECASE)
findall_file_urls(s) == MatchesFrom(s, MatchStarts(s), 1)

\* discovery.py 204-206: the resolved URL is kept when it exists
UnfilteredFinal(final_url) ==
    IF final_url # NoUrl THEN << final_url >> ELSE << >>

\* discovery.py 203-206: what one regex match appends to found
FromLiteral(p, net) ==
    IF ~blacklisted(p)
    THEN UnfilteredFinal(resolve_redirect_to_file(p, net))
    ELSE << >>

RECURSIVE FlatMapAnchors(_, _, _)
FlatMapAnchors(page_url, doc, net) ==
    IF doc = << >> THEN << >>
    ELSE (IF Head(doc).tag = "a" THEN FromAnchor(page_url, Head(doc), net)
          ELSE << >>) \o FlatMapAnchors(page_url, Tail(doc), net)

RECURSIVE FlatMapFrames(_, _, _)
FlatMapFrames(page_url, doc, net) ==
    IF doc = << >> THEN << >>
    ELSE (IF Head(doc).tag = "iframe" THEN FromFrame(page_url, Head(doc), net)
          ELSE << >>) \o FlatMapFrames(page_url, Tail(doc), net)

RECURSIVE FlatMapLiterals(_, _)
FlatMapLiterals(ps, net) ==
    IF ps = << >> THEN << >>
    ELSE FromLiteral(Head(ps), net) \o FlatMapLiterals(Tail(ps), net)

\* the list is returned as it was found
DedupeKeepsAll(q) == q

RECURSIVE Dedupe(_)
\* discovery.py 207-214: dedupe keeping order
Dedupe(q) ==
    IF q = << >> THEN << >>
    ELSE LET front == Dedupe(SubSeq(q, 1, Len(q) - 1))
             last == q[Len(q)]
         IN IF \E i \in 1..Len(front) : front[i] = last
            THEN front ELSE Append(front, last)

\* the call extract_pdfs_and_file_links_from_html(base_url, html_text(doc))
ExtractInit ==
    /\ exBase = ExBaseUrl
    /\ exDoc \in SeqsUpTo(ExElements, MaxElems)
                \cup {ScenarioARelative, ScenarioAAbsolute, ScenarioB}
    /\ exNet \in {"up", "down"}
    /\ exPc = "anchors"
    /\ found = << >>
    /\ exOut = << >>

\* discovery.py 162-163: if not html_text: return found
ExtractEmpty ==
    /\ exPc = "anchors"
    /\ html_text(exDoc) = ""
    /\ exPc' = "returned"
    /\ exOut' = found
    /\ UNCHANGED << exBase, exDoc, exNet, found, OutsideExtract >>

\* discovery.py 165-187: the loop over the anchors
ExtractAnchors ==
    /\ exPc = "anchors"
    /\ html_text(exDoc) # ""
    /\ found' = found \o FlatMapAnchors(exBase, exDoc, exNet)
    /\ exPc' = "frames"
    /\ UNCHANGED << exBase, exDoc, exNet, exOut, OutsideExtract >>

\* discovery.py 189-200: the loop over iframe, embed and object
ExtractFrames ==
    /\ exPc = "frames"
    /\ found' = found \o FlatMapFrames(exBase, exDoc, exNet)
    /\ exPc' = "regex"
    /\ UNCHANGED << exBase, exDoc, exNet, exOut, OutsideExtract >>

\* discovery.py 202-206: the loop over the regex matches in the raw text
ExtractRegex ==
    /\ exPc = "regex"
    /\ found' = found \o FlatMapLiterals(findall_file_urls(html_text(exDoc)), exNet)
    /\ exPc' = "dedupe"
    /\ UNCHANGED << exBase, exDoc, exNet, exOut, OutsideExtract >>

\* discovery.py 207-214
ExtractReturn ==
    /\ exPc = "dedupe"
    /\ exOut' = Dedupe(found)
    /\ exPc' = "returned"
    /\ UNCHANGED << exBase, exDoc, exNet, found, OutsideExtract >>

ExtractNext ==
    \/ ExtractEmpty
    \/ ExtractAnchors
    \/ ExtractFrames
    \/ ExtractRegex
    \/ ExtractReturn

\* the anchors of the document whose link resolves to u
AnchorsTo(u) ==
    { i \in 1..Len(exDoc) :
        /\ exDoc[i].tag = "a"
        /\ resolve_redirect_to_file(urljoin(exBase, StripWs(exDoc[i].ref)), exNet) = u }

\* C7: extract_pdfs_and_file_links_from_html never returns a URL whose file
\* name matches a reject keyword, nor a URL that the document links only
\* through anchors whose text matches a reject keyword, whichever of the
\* three passes (anchors, frames, raw-text regex) found it.
C7_RejectListPrecedence ==
    exPc = "returned" =>
        \A i \in 1..Len(exOut) :
            /\ FinalNameAccepted(exOut[i])
            /\ AnchorsTo(exOut[i]) # {} =>
                 \E a \in AnchorsTo(exOut[i]) :
                     is_probably_meeting_document(AnchorText(exDoc[a]))

\* C15: Scenario A.  For a seed page whose only anchors point to
\* ata-03-2024.pdf and balanco-2023.pdf, both reachable, the extraction
\* returns exactly the first document, whether the hrefs are relative or
\* absolute.
C15_ScenarioA ==
    (/\ exPc = "returned"
     /\ exNet = "up"
     /\ exDoc \in {ScenarioARelative, ScenarioAAbsolute})
    => exOut = << "https://rpps.gov.br/transparencia/ata-03-2024.pdf" >>

\* C16: Scenario B.  For a seed page with an anchor to /pagina?id=77 the
\* discovery emits exactly one deferred resource, the token
\* detail://<absolute-page-url>|77.
C16_ScenarioB ==
    (exPc = "returned" /\ exNet = "up" /\ exDoc = ScenarioB)
    => exOut = << "detail://https://rpps.gov.br/pagina?id=77|77" >>

(***************************************************************************)
(* core/discovery.py : crawl_site                                          *)
(***************************************************************************)
\* largest value of the max_depth argument explored
MaxDepthArg == 3

\* number of sibling links the largest page of the site carries besides its
\* other anchors; with them the page has more admissible links than
\* RANK_LIMIT
MaxLinks == 40

\* the page budget of the model; discovery.py 32 sets 300, a budget that a
\* site of a dozen pages cannot reach.  The loop compares len(visited_urls)
\* with it and nothing else depends on its value.
MaxPages == 5

\* discovery.py 32 (scaled, see MaxPages)
MAX_PAGES_FROM_SITE == MaxPages

\* discovery.py 31
MAX_CRAWL_DEPTH == 3

\* the seed of the crawl
SeedUrl == "https://rpps.gov.br/"

\* The site: the HTML document served at (and rendered from) each URL.
PageDoc(url) ==
    CASE url = "https://rpps.gov.br/" ->
           << Anchor("/conselho", "Conselho"),
              Anchor("/conselho", "Conselho Deliberativo"),
              Anchor("/reunioes", "Reuniões"),
              Anchor("/institucional", "Institucional"),
              Anchor("/contato", "Contato"),
              Anchor("/licitacao/atas", "Atas de licitação"),
              Anchor("https://outro.org.br/comite-investimento",
                     "Comitê de Investimento"),
              Anchor("/docs/ata-01.pdf", "Ata 01"),
              Frame("https://outro.org.br/embed") >>
      [] url = "https://rpps.gov.br/conselho" ->
           << Anchor("/conselho/comite", "Comitê"),
              Anchor("/conselho", "Conselho"),
              Anchor("/", "Início"),
              Anchor("/institucional", "Institucional"),
              Frame("https://rpps.gov.br/widgets/menu") >>
      [] url = "https://rpps.gov.br/institucional" ->
           << Anchor("/portal/documentos", "Documentos"),
              Anchor("/conselho#membros", "Conselho"),
              Frame("about:blank") >>
           \o [i \in 1..MaxLinks |->
                 Anchor("/institucional/documentos/" \o ToString(i),
                        "Documentos")]
      [] url = "https://rpps.gov.br/reunioes" ->
           << Anchor("/docs/ata-02.pdf", "Ata 02") >>
      [] url = "https://rpps.gov.br/conselho/comite" ->
           << Anchor("/conselho/comite/atas-2024", "Atas 2024"),
              Anchor("/conselho/comite/membros", "Membros") >>
      [] url = "https://rpps.gov.br/portal/documentos" ->
           << Anchor("/portal/documentos/2023", "Documentos 2023") >>
      [] url = "https://rpps.gov.br/conselho/comite/atas-2024" ->
           << Anchor("/docs/ata-03.pdf", "Ata 03"),
              Anchor("/conselho/comite/atas-2024/janeiro", "Janeiro") >>
      [] url = "https://rpps.gov.br/widgets/menu/documentos" ->
           << Anchor("/docs/ata-01.pdf", "Ata 01") >>
      [] OTHER -> << >>

\* the document inside the iframe whose src is src
FrameDoc(src) ==
    CASE src = "about:blank" ->
           << Anchor("atas-comite", "Atas do Comitê"),
              Anchor("https://outro.org.br/atas", "Atas") >>
      [] src = "https://rpps.gov.br/widgets/menu" ->
           << Anchor("menu/documentos", "Documentos") >>
      [] OTHER -> << >>

\* the files selenium_extract_atas_from_year_page (discovery.py 437-562) may
\* collect from the page at url; it returns list(found), found a set.  The
\* target of a redirect is added without a blacklist test (526-533, 556).
YearPageResults(url) ==
    { << >>,
      << "https://rpps.gov.br/docs/ata-02.pdf" >>,
      << "https://rpps.gov.br/docs/ata-02.pdf",
         "https://rpps.gov.br/docs/ata-03.pdf" >>,
      << "https://rpps.gov.br/licitacoes/ata-09.pdf",
         "https://rpps.gov.br/docs/ata-02.pdf" >> }

\* the files click_top_candidates_and_extract (discovery.py 404-431) may
\* collect from the page at url
ClickResults(url) ==
    { << >>, << "https://rpps.gov.br/docs/ata-01.pdf" >> }

\* the whole function extract_pdfs_and_file_links_from_html (160-214)
extract_pdfs_and_file_links_from_html(b, doc, net) ==
    IF html_text(doc) = "" THEN << >>
    ELSE Dedupe(FlatMapAnchors(b, doc, net)
                  \o FlatMapFrames(b, doc, net)
                  \o FlatMapLiterals(findall_file_urls(html_text(doc)), net))

\* discovery.py 119-130: the text served at url, the empty document (None)
\* when the request fails on every attempt
safe_get_text(url, net) == IF net = "up" THEN PageDoc(url) ELSE << >>

\* the URLs at which PageDoc serves a document
SitePages ==
    { "https://rpps.gov.br/",
      "https://rpps.gov.br/conselho",
      "https://rpps.gov.br/institucional",
      "https://rpps.gov.br/reunioes",
      "https://rpps.gov.br/conselho/comite",
      "https://rpps.gov.br/portal/documentos",
      "https://rpps.gov.br/conselho/comite/atas-2024",
      "https://rpps.gov.br/widgets/menu/documentos" }

\* the iframe sources at which FrameDoc serves a document
FrameSrcs == { "about:blank", "https://rpps.gov.br/widgets/menu" }

\* the (URL, document) pairs of the site
Served ==
    { << u, PageDoc(u) >> : u \in SitePages }
      \cup { << f, FrameDoc(f) >> : f \in FrameSrcs }

\* mutant of MergeNew: the new files are not added
MergeNewDropped(all, fs) == all

RECURSIVE MergeNew(_, _)
\* discovery.py 720-722: for f in fs: if f not in all: all.append(f)
MergeNew(all, fs) ==
    IF fs = << >> THEN all
    ELSE MergeNew(IF \E i \in 1..Len(all) : all[i] = Head(fs)
                  THEN all ELSE Append(all, Head(fs)),
                  Tail(fs))

RECURSIVE RawLinks(_, _)
\* discovery.py 785-789, 814-818: (abs_url, text) of every anchor
RawLinks(join_url, doc) ==
    IF doc = << >> THEN << >>
    ELSE (IF Head(doc).tag = "a"
          THEN << << urljoin(join_url, StripWs(Head(doc).ref)),
                     StripWs(Head(doc).text) >> >>
          ELSE << >>) \o RawLinks(join_url, Tail(doc))

\* discovery.py 760-761: iframe.get_attribute('src') of the iframes of the
\* rendered page, in document order
IframeSrcs(doc) ==
    LET frames == SelectSeq(doc, LAMBDA e : e.tag = "iframe")
    IN [i \in 1..Len(frames) |-> frames[i].ref]

\* discovery.py 762: the iframes the crawl is willing to enter
IframeEligible(src, base_domain) ==
    /\ src # ""
    /\ (domain_of(src) = base_domain \/ domain_of(src) = "")

\* discovery.py 728
is_year_page_candidate(url) ==
    \E k \in {"atas", "reunioes", "comite-de-investimentos"} :
        Contains(Lower(url), k)

\* discovery.py 747
IsPromisingPage(url) ==
    \E k \in {"institucional", "conselho", "transpar", "investimento"} :
        Contains(Lower(url), k)

\* extract_pdfs_and_file_links_from_html on the documents of the site,
\* computed once
ExtractMemo ==
    [p \in Served |->
        [net \in {"up", "down"} |->
            extract_pdfs_and_file_links_from_html(p[1], p[2], net)]]

\* discovery.py 719, 778: extract_pdfs_and_file_links_from_html(url, doc)
FilesOn(url, doc, net) ==
    IF << url, doc >> \in Served THEN ExtractMemo[<< url, doc >>][net]
    ELSE extract_pdfs_and_file_links_from_html(url, doc, net)

\* rank_internal_links_by_score on the links of the documents of the site,
\* computed once
RankMemo ==
    [p \in Served |->
        [extra \in {NoDomain, domain_of(p[1])} |->
            rank_internal_links_by_score(domain_of(SeedUrl),
                                         RawLinks(p[1], p[2]), extra)]]

\* discovery.py 794, 820: rank_internal_links_by_score over the anchors of doc
RankedOn(domain, url, doc, extra) ==
    IF /\ domain = domain_of(SeedUrl)
       /\ << url, doc >> \in Served
       /\ extra \in {NoDomain, domain_of(url)}
    THEN RankMemo[<< url, doc >>][extra]
    ELSE rank_internal_links_by_score(domain, RawLinks(url, doc), extra)

\* mutant of LoopContinues: the page budget is not tested
LoopContinuesNoBudget ==
    to_visit_queue # << >>

\* discovery.py 698: the loop condition
LoopContinues ==
    /\ to_visit_queue # << >>
    /\ Cardinality(visited_urls) < MAX_PAGES_FROM_SITE

\* mutant of DepthAllows: the depth of the new entry is not tested
DepthAllowsAny(current_depth) == TRUE

\* discovery.py 798, 823: current_depth + 1 <= max_depth
DepthAllows(current_depth) == current_depth + 1 <= max_depth

\* discovery.py 797-798, 822-823: the candidate is not a visited URL; the
\* URL of the page being processed was added to visited_urls at 705
NotVisited(cand_url) ==
    /\ cand_url \notin visited_urls \cup {to_visit_queue[1][1]}
    /\ urljoin(cand_url, PathOf(cand_url))
          \notin visited_urls \cup {to_visit_queue[1][1]}

\* discovery.py 795-799, 821-824: the entries the loop appends
NewEntries(new_candidates, current_depth) ==
    LET kept == SelectSeq(new_candidates,
                          LAMBDA c : NotVisited(c) /\ DepthAllows(current_depth))
    IN [i \in 1..Len(kept) |-> << kept[i], current_depth + 1 >>]

\* the candidates that only the depth test kept out of the queue
RefusedByDepth(new_candidates, current_depth) ==
    { << new_candidates[i], current_depth + 1 >> :
        i \in { j \in 1..Len(new_candidates) :
                  NotVisited(new_candidates[j]) /\ ~DepthAllows(current_depth) } }

current_url == to_visit_queue[1][1]
current_depth == to_visit_queue[1][2]
base_domain == domain_of(base_url)

\* discovery.py 70-82, 690-696: what init_driver leaves behind.
\* webdriver.Chrome() raises: no session, driver = None;
\* webdriver.Chrome() returns and set_page_load_timeout (75, outside any
\* try) raises: the session exists, the except at 694 sets driver = None;
\* init_driver returns: driver is the session.
InitDriverOutcomes ==
    { [driver |-> "none", session |-> "none"],
      [driver |-> "none", session |-> "open"],
      [driver |-> "open", session |-> "open"] }

\* discovery.py 683-696: the state when the loop is first reached;
\* init_driver may fail, and the crawl then goes on without a driver.
\* crawl_site has no parameter for a cancellation signal: whatever the
\* caller holds in abandon_signal, nothing below reads it.
CrawlInit ==
    /\ base_url = SeedUrl
    /\ max_depth \in (-1..MaxDepthArg) \cup {MAX_CRAWL_DEPTH}
    /\ \E o \in InitDriverOutcomes : driver = o.driver /\ session = o.session
    /\ abandon_signal \in BOOLEAN
    /\ render_log = << >>
    /\ dynamic_log = {}
    /\ all_found_files = << >>
    /\ to_visit_queue = << << base_url, 0 >> >>
    /\ visited_urls = {}
    /\ found_primary_target_page = FALSE
    /\ crPc = "loop"
    /\ final_files = << >>
    /\ fetched = {}
    /\ rendered = {}
    /\ appended = << >>
    /\ refused = {}

\* what every iteration leaves alone
CrawlFrame == << base_url, max_depth, driver, crPc, final_files, session,
                abandon_signal, OutsideCrawl >>

\* discovery.py 826-831: finally: if driver: driver.quit()
SessionAfterExit == IF driver = "open" THEN "closed" ELSE session

\* discovery.py 698-701 false or break, 826-841: the loop ends, the driver
\* is quit and the files are deduplicated and filtered
CrawlLoopExit ==
    /\ crPc = "loop"
    /\ ~LoopContinues \/ found_primary_target_page
    /\ driver' = IF driver = "open" THEN "quit" ELSE driver
    /\ session' = SessionAfterExit
    /\ final_files' = SelectSeq(Dedupe(all_found_files),
                                LAMBDA u : ~blacklisted(u))
    /\ crPc' = "returned"
    /\ UNCHANGED << base_url, max_depth, all_found_files, to_visit_queue,
                    visited_urls, found_primary_target_page, fetched,
                    rendered, appended, refused, abandon_signal, render_log,
                    dynamic_log, OutsideCrawl >>

\* mutant of IterGuard: the flag found_primary_target_page is not tested
IterGuardIgnoresTarget ==
    /\ crPc = "loop"
    /\ LoopContinues

\* an iteration starts: the loop goes on and pops the head of the queue
IterGuard ==
    /\ crPc = "loop"
    /\ LoopContinues
    /\ ~found_primary_target_page

\* mutant of IterAlreadyVisited: the visited entry goes back to the end of
\* the queue
IterAlreadyVisitedRequeues ==
    /\ IterGuard
    /\ current_url \in visited_urls
    /\ to_visit_queue' = Append(Tail(to_visit_queue), to_visit_queue[1])
    /\ UNCHANGED << all_found_files, visited_urls, found_primary_target_page,
                    fetched, rendered, appended, refused, render_log,
                    dynamic_log, CrawlFrame >>

\* discovery.py 703-706: the popped URL was visited before
IterAlreadyVisited ==
    /\ IterGuard
    /\ current_url \in visited_urls
    /\ to_visit_queue' = Tail(to_visit_queue)
    /\ UNCHANGED << all_found_files, visited_urls, found_primary_target_page,
                    fetched, rendered, appended, refused, render_log,
                    dynamic_log, CrawlFrame >>

\* discovery.py 703-712: the popped URL is marked visited and then skipped,
\* too deep or blacklisted
IterSkip ==
    /\ IterGuard
    /\ current_url \notin visited_urls
    /\ current_depth > max_depth \/ blacklisted(current_url)
    /\ visited_urls' = visited_urls \cup {current_url}
    /\ to_visit_queue' = Tail(to_visit_queue)
    /\ UNCHANGED << all_found_files, found_primary_target_page,
                    fetched, rendered, appended, refused, render_log,
                    dynamic_log, CrawlFrame >>

\* mutant of IterFetches: the visited set is not consulted
IterFetchesRevisits ==
    /\ IterGuard
    /\ current_depth <= max_depth
    /\ ~blacklisted(current_url)

\* the popped entry goes on to be fetched
IterFetches ==
    /\ IterGuard
    /\ current_url \notin visited_urls
    /\ current_depth <= max_depth
    /\ ~blacklisted(current_url)

\* discovery.py 717-719: files_on_page (empty when the fetch gave nothing)
StaticFiles(net) ==
    FilesOn(current_url, safe_get_text(current_url, net), net)

\* discovery.py 717-722: all_found_files after the static extraction
AfterStatic(net) == MergeNew(all_found_files, StaticFiles(net))

\* one call of a dynamic extractor on the current page: which one, how many
\* files the static extraction had found there, and what the call returned
DynamicCall(net, kind, returned) ==
    [url |-> current_url, static |-> Len(StaticFiles(net)), kind |-> kind,
     results |-> returned]

\* discovery.py 740, 801-802: driver.get on the current page and how the
\* render branch ended
Rendered(outcome) == Append(render_log, << current_url, outcome >>)

\* discovery.py 795-799, 821-824: the candidates are appended to the queue
Follow(new_candidates) ==
    /\ to_visit_queue' =
          Tail(to_visit_queue) \o NewEntries(new_candidates, current_depth)
    /\ appended' = appended \o NewEntries(new_candidates, current_depth)
    /\ refused' = refused \cup RefusedByDepth(new_candidates, current_depth)

\* discovery.py 774-799: the rendered document html_after_js, read in the
\* context current_url_for_join, gives files and new entries
RenderedIn(net, current_url_for_join, html_after_js, interactive_results) ==
    /\ all_found_files' =
          MergeNew(MergeNew(AfterStatic(net), interactive_results),
                   FilesOn(current_url_for_join, html_after_js, net))
    /\ Follow(RankedOn(base_domain, current_url_for_join, html_after_js,
                       \* discovery.py 791: iframe_domain
                       IF current_url_for_join # current_url
                       THEN domain_of(current_url_for_join) ELSE NoDomain))

\* discovery.py 703-735: the page is handed to the year-page extractor
IterYearPage(net) ==
    /\ IterFetches
    /\ driver = "open"
    /\ is_year_page_candidate(current_url)
    /\ \E pdfs_from_year_page \in YearPageResults(current_url) :
          /\ all_found_files' = MergeNew(AfterStatic(net), pdfs_from_year_page)
          /\ dynamic_log' = dynamic_log \cup
                { DynamicCall(net, "year", pdfs_from_year_page) }
    /\ render_log' = Rendered("ok")
    /\ found_primary_target_page' = TRUE
    /\ visited_urls' = visited_urls \cup {current_url}
    /\ to_visit_queue' = Tail(to_visit_queue)
    /\ fetched' = fetched \cup { << current_url, current_depth >> }
    /\ rendered' = rendered \cup { << current_url, current_depth >> }
    /\ UNCHANGED << appended, refused, CrawlFrame >>

\* discovery.py 703-722, 738-807: the page is rendered; entered is the index
\* of the iframe the driver switched into (0: it stayed in the main
\* document, a switch that raises makes the loop try the next iframe)
IterRender(net, entered) ==
    /\ IterFetches
    /\ driver = "open"
    /\ ~is_year_page_candidate(current_url)
    /\ PageDoc(current_url) # << >>
    /\ \E srcs \in { IframeSrcs(PageDoc(current_url)) } :
       \E interactive_results \in
            (IF IsPromisingPage(current_url)
             THEN ClickResults(current_url) ELSE { << >> }) :
          /\ entered \in 0..Len(srcs)
          /\ entered # 0 => IframeEligible(srcs[entered], base_domain)
          /\ RenderedIn(net,
                        IF entered = 0 THEN current_url ELSE srcs[entered],
                        IF entered = 0 THEN PageDoc(current_url)
                        ELSE FrameDoc(srcs[entered]),
                        interactive_results)
          /\ dynamic_log' =
                IF IsPromisingPage(current_url)
                THEN dynamic_log \cup
                        { DynamicCall(net, "click", interactive_results) }
                ELSE dynamic_log
    /\ render_log' = Rendered("ok")
    /\ visited_urls' = visited_urls \cup {current_url}
    /\ fetched' = fetched \cup { << current_url, current_depth >> }
    /\ rendered' = rendered \cup { << current_url, current_depth >> }
    /\ UNCHANGED << found_primary_target_page, CrawlFrame >>

\* discovery.py 740-752: how far the render branch got before it raised:
\* not to the interactive clicks, or past them with their results
ClicksBeforeFailure(url) ==
    { [called |-> FALSE, results |-> << >>] } \cup
    (IF IsPromisingPage(url)
     THEN { [called |-> TRUE, results |-> r] : r \in ClickResults(url) }
     ELSE {})

\* discovery.py 703-722, 738-753, 801-807: the render session raises (in
\* driver.get, or later, after the interactive clicks); the exception is
\* printed, no link of the page is followed, and the driver is kept
IterRenderFails(net) ==
    /\ IterFetches
    /\ driver = "open"
    /\ ~is_year_page_candidate(current_url)
    /\ \E c \in ClicksBeforeFailure(current_url) :
          /\ all_found_files' = MergeNew(AfterStatic(net), c.results)
          /\ dynamic_log' =
                IF c.called
                THEN dynamic_log \cup { DynamicCall(net, "click", c.results) }
                ELSE dynamic_log
    /\ render_log' = Rendered("failed")
    /\ visited_urls' = visited_urls \cup {current_url}
    /\ to_visit_queue' = Tail(to_visit_queue)
    /\ fetched' = fetched \cup { << current_url, current_depth >> }
    /\ rendered' = rendered \cup { << current_url, current_depth >> }
    /\ UNCHANGED << found_primary_target_page, appended, refused, CrawlFrame >>

\* discovery.py 703-722, 810-824: no driver, the links of the static page
\* are ranked and followed
IterStatic(net) ==
    /\ IterFetches
    /\ driver = "none"
    /\ all_found_files' = AfterStatic(net)
    /\ Follow(RankedOn(base_domain, current_url,
                       safe_get_text(current_url, net), NoDomain))
    /\ visited_urls' = visited_urls \cup {current_url}
    /\ fetched' = fetched \cup { << current_url, current_depth >> }
    /\ UNCHANGED << found_primary_target_page, rendered, render_log,
                    dynamic_log, CrawlFrame >>

CrawlNext ==
    \/ CrawlLoopExit
    \/ IterAlreadyVisited
    \/ IterSkip
    \/ \E net \in {"up", "down"} : IterYearPage(net)
    \/ \E net \in {"up", "down"}, entered \in 0..1 : IterRender(net, entered)
    \/ \E net \in {"up", "down"} : IterRenderFails(net)
    \/ \E net \in {"up", "down"} : IterStatic(net)

\* C4: no frontier entry deeper than max_depth is ever fetched, statically
\* or through the render session, and no entry deeper than max_depth is ever
\* appended to the queue.
C4_DepthBound ==
    /\ \A e \in fetched \cup rendered : e[2] <= max_depth
    /\ \A i \in 1..Len(appended) : appended[i][2] <= max_depth

\* a finished crawl that fetched a page at depth max_depth, below the seed,
\* and kept that page's candidates out of the queue because of their depth
C4_Witness ==
    /\ crPc = "returned"
    /\ appended # << >>
    /\ refused # {}
    /\ \E e \in fetched : e[2] = max_depth /\ e[2] > 0

\* C5: the visited set never holds more than MAX_PAGES_FROM_SITE URLs, the
\* URLs dequeued and then skipped for depth or blacklist included.
C5_PageBudget == Cardinality(visited_urls) <= MAX_PAGES_FROM_SITE

\* a crawl that the budget stopped: the visited set is full, entries are
\* still queued and no year page ended the search
C5_Witness ==
    /\ crPc = "returned"
    /\ Cardinality(visited_urls) = MAX_PAGES_FROM_SITE
    /\ to_visit_queue # << >>
    /\ ~found_primary_target_page

\* C6: every URL appended to the queue after the seed has the domain of the
\* seed URL, on the static path and on the rendered path, where an entered
\* iframe's domain (possibly empty) is an extra allowed domain.
C6_CrossDomainContainment ==
    \A i \in 1..Len(appended) :
        domain_of(appended[i][1]) = domain_of(base_url)

\* C13: once a render call of the crawl has failed, the browser session is
\* torn down at once and no later URL of that crawl is handed to the render
\* session.
C13_RenderFailureSticky ==
    \A i \in 1..Len(render_log) :
        render_log[i][2] = "failed" =>
            /\ i = Len(render_log)
            /\ session # "open"

\* C14: a browser session that the crawl created is not left open once
\* crawl_site has returned: every exit path of the crawl quits it.
C14_SessionLifecycle ==
    crPc = "returned" => session # "open"

\* C18: Scenario E.  A fetched page whose URL is promising, with a render
\* session at hand, is handed to a dynamic extractor (the interactive clicks,
\* or the year-page extractor when the URL is also a year-page candidate)
\* unless the render of that page raised, also when the static extraction
\* found nothing there; and what every dynamic call returned is in the
\* discovered set before the next entry is taken from the queue.
C18_DynamicFallbackMerges ==
    /\ \A e \in fetched :
          (driver # "none" /\ IsPromisingPage(e[1])) =>
             /\ e \in rendered
             /\ \/ \E c \in dynamic_log : c.url = e[1]
                \/ \E i \in 1..Len(render_log) :
                      render_log[i] = << e[1], "failed" >>
    /\ \A c \in dynamic_log :
          \A i \in 1..Len(c.results) :
             \E j \in 1..Len(all_found_files) :
                all_found_files[j] = c.results[i]

C18_Witness ==
    /\ crPc = "loop"
    /\ to_visit_queue # << >>
    /\ \E c \in dynamic_log :
          /\ c.kind = "click"
          /\ c.static = 0
          /\ IsPromisingPage(c.url)
          /\ c.results # << >>
          /\ all_found_files = c.results

\* C20: when the caller's cancellation signal is set, the URL just taken
\* from the queue is abandoned: it is not fetched.
C20_CooperativeCancellation ==
    abandon_signal => fetched = {}

\* C21: the render session is driven on a page only when the static
\* extraction found nothing on that page and the URL is promising: every page
\* the browser loaded has a promising URL, and every call of a dynamic
\* extractor was made on a promising page with no static candidate.
C21_RenderOnlyWhenNeeded ==
    /\ \A i \in 1..Len(render_log) : IsPromisingPage(render_log[i][1])
    /\ \A c \in dynamic_log : c.static = 0 /\ IsPromisingPage(c.url)

RECURSIVE IsSubsequence(_, _)
\* q can be obtained from s by deleting elements, the order being kept
IsSubsequence(q, s) ==
    IF q = << >> THEN TRUE
    ELSE IF s = << >> THEN FALSE
    ELSE IF Head(q) = Head(s) THEN IsSubsequence(Tail(q), Tail(s))
    ELSE IsSubsequence(q, Tail(s))

\* discovery.py 774-789, 811-818: the documents whose anchors the iteration
\* on url may read, each with the URL its hrefs are joined to: the page
\* itself, or the document of an iframe of the page the driver entered
LinkContexts(url) ==
    { << url, PageDoc(url) >> } \cup
    { << IframeSrcs(PageDoc(url))[i], FrameDoc(IframeSrcs(PageDoc(url))[i]) >> :
        i \in 1..Len(IframeSrcs(PageDoc(url))) }

\* the URLs of the entries a step appended to the queue
JustAppended(before, after) ==
    [i \in 1..(Len(after) - Len(before)) |-> after[Len(before) + i][1]]

\* C22: the links discovered on one page are appended to the queue in the
\* order in which they appear on the page; the score only decides which of
\* them are admitted.
C22_FrontierPageOrder ==
    [][ \E ctx \in LinkContexts(current_url) :
           IsSubsequence(JustAppended(appended, appended'),
                         [i \in 1..Len(RawLinks(ctx[1], ctx[2])) |->
                             RawLinks(ctx[1], ctx[2])[i][1]]) ]_vars

\* discovery.py 661-665: (score, abs_url) of every anchor of the documents of
\* the site, computed once
ScoreMemo ==
    [p \in Served |->
        [k \in 1..Len(RawLinks(p[1], p[2])) |->
            ScoredLink(RawLinks(p[1], p[2])[k])]]

\* C23: every URL appended to the queue is, when it is appended, not in the
\* visited set, at depth current_depth + 1 <= max_depth, not blacklisted, not
\* document-shaped, and the link of the page it comes from has a strictly
\* positive score; one page adds at most 40 entries.
C23_EnqueueGuard ==
    [][ /\ Len(appended') - Len(appended) <= 40
        /\ \A i \in (Len(appended) + 1)..Len(appended') :
              /\ appended'[i][1] \notin visited_urls'
              /\ appended'[i][2] = current_depth + 1
              /\ appended'[i][2] <= max_depth
              /\ ~blacklisted(appended'[i][1])
              /\ ~looks_like_file(appended'[i][1])
              /\ \E ctx \in LinkContexts(current_url) \cap Served :
                    \E k \in DOMAIN ScoreMemo[ctx] :
                       /\ ScoreMemo[ctx][k][2] = appended'[i][1]
                       /\ ScoreMemo[ctx][k][1] > 0 ]_vars

\* the page with more than 40 admissible links was processed: exactly the 40
\* best of them were appended, one after the other, at depth 2
C23_Witness ==
    /\ "https://rpps.gov.br/institucional" \in visited_urls
    /\ \E p \in { << "https://rpps.gov.br/institucional",
                     PageDoc("https://rpps.gov.br/institucional") >> } :
          /\ Cardinality({ k \in DOMAIN ScoreMemo[p] :
                             /\ ScoreMemo[p][k][1] > RANK_MIN_SCORE
                             /\ AllowedLink(domain_of(SeedUrl), NoDomain,
                                            ScoreMemo[p][k][2]) }) > 40
          /\ Len(RankMemo[p][NoDomain]) = 40
          /\ \E j \in 0..(Len(appended) - 40) :
                \A i \in 1..40 :
                   appended[j + i] = << RankMemo[p][NoDomain][i], 2 >>

\* the number of queue entries the loop has taken so far (the seed and the
\* appended entries leave the queue in the order they entered it)
Dequeued == 1 + Len(appended) - Len(to_visit_queue)

\* C24: the visited set only grows; every iteration leaves the URL it took
\* from the queue in the visited set, also when the URL is then skipped for
\* its depth or the blacklist; and an entry whose URL is already visited is
\* dropped without being fetched or rendered, so no URL is processed twice.
C24_VisitedSet ==
    /\ [][ visited_urls \subseteq visited_urls' ]_vars
    /\ [][ (crPc = "loop" /\ to_visit_queue' # to_visit_queue)
              => to_visit_queue[1][1] \in visited_urls' ]_vars
    /\ [][ (/\ crPc = "loop" /\ to_visit_queue' # to_visit_queue
            /\ to_visit_queue[1][1] \in visited_urls)
              => /\ to_visit_queue' = Tail(to_visit_queue)
                 /\ UNCHANGED << all_found_files, visited_urls, fetched,
                                 rendered, appended, refused, render_log,
                                 dynamic_log, found_primary_target_page >> ]_vars
    /\ [] (\A i, j \in 1..Len(render_log) :
              render_log[i][1] = render_log[j][1] => i = j)
    /\ [] (\A e, f \in fetched : e[1] = f[1] => e = f)

\* a URL was enqueued twice and both entries were taken from the queue, the
\* page was fetched, and its own links back to visited pages went nowhere
C24_Witness ==
    /\ \E i, j \in 1..(Dequeued - 1) :
          /\ i < j
          /\ appended[i][1] = appended[j][1]
          /\ << appended[i][1], appended[i][2] >> \in fetched
          /\ PageDoc(appended[i][1]) # << >>
          /\ \E k \in 1..Len(PageDoc(appended[i][1])) :
                /\ PageDoc(appended[i][1])[k].tag = "a"
                /\ urljoin(appended[i][1], PageDoc(appended[i][1])[k].ref)
                     = appended[i][1]
    /\ Cardinality(visited_urls) >= 3

\* the position at which u first occurs in q
FirstIndex(q, u) ==
    CHOOSE i \in 1..Len(q) : q[i] = u /\ \A j \in 1..(i - 1) : q[j] # u

\* no element occurs twice in q
NoRepeats(q) == \A i, j \in 1..Len(q) : q[i] = q[j] => i = j

\* C35: one call of extract_pdfs_and_file_links_from_html returns every URL
\* it found, each once, in the order of their first occurrence; one call of
\* crawl_site returns a list without a repeated URL and without a URL of the
\* topical blacklist.
C35_NoDuplicateOutputs ==
    /\ exPc = "returned" =>
          /\ NoRepeats(exOut)
          /\ { exOut[k] : k \in 1..Len(exOut) } = { found[i] : i \in 1..Len(found) }
          /\ \A k, l \in 1..Len(exOut) :
                k < l => FirstIndex(found, exOut[k]) < FirstIndex(found, exOut[l])
    /\ crPc = "returned" =>
          /\ NoRepeats(final_files)
          /\ \A i \in 1..Len(final_files) : ~blacklisted(final_files[i])
          /\ \A i \in 1..Len(all_found_files) :
                blacklisted(all_found_files[i])
                \/ \E k \in 1..Len(final_files) : final_files[k] = all_found_files[i]

\* an extraction whose passes found two URLs, one of them more than once
C35_Witness ==
    /\ exPc = "returned"
    /\ Len(exOut) = 2
    /\ Len(found) > 2

\* a crawl whose year page gave a file under a blacklisted path
C35_CrawlCase ==
    /\ crPc = "returned"
    /\ \E i \in 1..Len(all_found_files) : blacklisted(all_found_files[i])
    /\ final_files # << >>

\* discovery.py 698-712: one iteration took an entry that was visited
\* before off the queue and left the visited set alone
RemovesVisitedEntry ==
    /\ to_visit_queue[1][1] \in visited_urls
    /\ to_visit_queue' = Tail(to_visit_queue)
    /\ visited_urls' = visited_urls

\* discovery.py 703-707: one iteration added the URL it dequeued, a new one,
\* to the visited set
AddsNewVisited ==
    /\ to_visit_queue[1][1] \notin visited_urls
    /\ visited_urls' = visited_urls \cup {to_visit_queue[1][1]}

\* C36: the crawl loop of crawl_site terminates on every link graph, cycles
\* and repeated queue entries included, when every fetch and render returns:
\* each iteration removes an already visited entry from the queue or adds a
\* new URL to the visited set, one newly visited page appends at most 40
\* entries, the loop is left when the queue is empty or the visited set has
\* reached the page budget, and the call returns.
C36_CrawlLoopTerminates ==
    /\ [][ (crPc' = "loop") => (RemovesVisitedEntry \/ AddsNewVisited) ]_vars
    /\ [][ (crPc' = "loop") =>
             /\ Len(to_visit_queue') <= Len(to_visit_queue) - 1 + RANK_LIMIT
             /\ (to_visit_queue' # Tail(to_visit_queue)) => AddsNewVisited
         ]_vars
    /\ [][ (crPc = "loop" /\ ~LoopContinues) => (crPc' = "returned") ]_vars
    /\ [](Cardinality(visited_urls) <= MAX_PAGES_FROM_SITE)
    /\ <>(crPc = "returned")

\* a finished crawl over a graph with a cycle: one URL was appended twice,
\* more entries were dequeued than URLs were visited (an entry visited before
\* was removed), and the budget ended the loop with entries left
C36_Witness ==
    /\ crPc = "returned"
    /\ \E i, j \in 1..Len(appended) :
          i < j /\ appended[i][1] = appended[j][1]
    /\ 1 + Len(appended) - Len(to_visit_queue) > Cardinality(visited_urls)
    /\ Cardinality(visited_urls) = MAX_PAGES_FROM_SITE
    /\ to_visit_queue # << >>

\* discovery.py 698-703: the step is an iteration: it dequeues the head of
\* the queue
Dequeues ==
    /\ crPc = "loop"
    /\ crPc' = "loop"
    /\ to_visit_queue # << >>

\* discovery.py 732: the year-page extractor was called on url
YearExtractorRanOn(url, log) ==
    \E d \in log : d.kind = "year" /\ d.url = url

RenderFailsOnPage ==
    /\ Dequeues
    /\ render_log' = Append(render_log, << to_visit_queue[1][1], "failed" >>)

\* discovery.py 717-722: the step shows that the static fetch of the page
\* had succeeded: no interactive click ran, and all_found_files received the
\* files of the static HTML
StaticFetchSucceeded ==
    /\ dynamic_log' = dynamic_log
    /\ StaticFiles("up") # << >>
    /\ all_found_files' = MergeNew(all_found_files, StaticFiles("up"))
    /\ all_found_files' # all_found_files

\* discovery.py 810-824: the entries the static branch appends for the page
StaticEntries ==
    NewEntries(RankedOn(base_domain, current_url,
                        safe_get_text(current_url, "up"), NoDomain),
               current_depth)

\* C38: a page whose static fetch succeeded always contributes its
\* qualifying internal links to the frontier: when the render session exists
\* and fails on the page, the links of the static HTML are appended to the
\* queue, as they are when there is no session.
C38_StaticFallbackAfterRenderFailure ==
    [][ (RenderFailsOnPage /\ StaticFetchSucceeded) =>
           /\ appended' = appended \o StaticEntries
           /\ to_visit_queue' = Tail(to_visit_queue) \o StaticEntries ]_vars

(***************************************************************************)
(* core/downloader.py : download_detail_page, download_single_url,         *)
(* _download_binary_response                                               *)
(***************************************************************************)
\* the deferred resources handed to download_detail_page: Scenario C's
\* token, a token whose page URL carries no id, a token without "|", and
\* two tokens whose query holds the text id=77 inside another key (uid) or
\* inside a longer value (777)
DetailTokens ==
    { "detail://https://rpps.gov.br/pagina?id=77|77",
      "detail://https://rpps.gov.br/atas/detalhe|77",
      "detail://https://rpps.gov.br/pagina",
      "detail://https://rpps.gov.br/pagina?uid=77|77",
      "detail://https://rpps.gov.br/pagina?id=777|77" }

\* no response: robust_request returned None
NoResponse == [ok |-> FALSE, url |-> "", ct |-> "", forms |-> {}, content |-> ""]

\* what a GET of the page URL meets: an HTML page whose form posts to
\* download.php, a portal page that also holds a profile form, a search
\* form and a share form, the PDF itself, or a host that does not answer
DetailGet(url, page) ==
    CASE page = "form" ->
           [ok |-> TRUE, url |-> url, ct |-> "text/html; charset=utf-8",
            forms |-> {"download.php"},
            content |-> "<html><body><form action=\"download.php\" method=\"post\"></form></body></html>"]
      [] page = "portal" ->
           [ok |-> TRUE, url |-> url, ct |-> "text/html; charset=utf-8",
            forms |-> {"download.php", "lista.php?profile=2",
                       "busca.php?pagina=2",
                       "https://www.facebook.com/sharer.php?id=77"},
            content |-> "<html><body><form action=\"download.php\" method=\"post\"></form><form action=\"lista.php?profile=2\"></form><form action=\"busca.php?pagina=2\"></form><form action=\"https://www.facebook.com/sharer.php?id=77\"></form></body></html>"]
      [] page = "pdf" ->
           [ok |-> TRUE, url |-> url, ct |-> "application/pdf",
            forms |-> {}, content |-> "%PDF ata 77"]
      [] OTHER -> NoResponse

\* urlparse(url).query
QueryOf(url) ==
    LET q == Find(url, "?")
        rest == IF q = 0 THEN "" ELSE From(url, q + 1)
    IN SubSeq(rest, 1, FirstOf(rest, {"#"}) - 1)

\* downloader.py 464: detail_url.replace("detail://", "") on a token that
\* holds the prefix once, at its start
DetailRaw(token) ==
    IF StartsWith(token, "detail://") THEN From(token, 10) ELSE token

\* downloader.py 465: raw.split("|", 1)
DetailPageUrl(token) ==
    SubSeq(DetailRaw(token), 1, Find(DetailRaw(token), "|") - 1)

DetailFileId(token) == From(DetailRaw(token), Find(DetailRaw(token), "|") + 1)

\* downloader.py 502-508
common_paths ==
    {"downloads.php", "download.php", "downloadsget.php", "baixar.php",
     "getfile.php"}

\* downloader.py 481-511: the form actions, the quoted strings of the page
\* that hold "download" and ".php" (488-491; in these pages the quoted
\* strings are the attribute values), and the common paths next to the
\* page.  No page of the model holds a location= assignment (493-496) or an
\* absolute download URL (498-500).
DetailCandidates(page_url, resp) ==
    { urljoin(page_url, a) : a \in resp.forms }
    \cup { urljoin(page_url, q) :
             q \in { a \in resp.forms :
                       Contains(Lower(a), "download") /\ Contains(a, ".php") } }
    \cup { urljoin(BeforeLast(page_url, "/") \o "/", c) : c \in common_paths }

\* downloader.py 513-525: the endpoints kept
DetailCleaned(candidates) ==
    { StripWs(ep) : ep \in
        { e \in candidates :
            /\ e # ""
            /\ ~\E n \in {"facebook.com", "instagram.com", "twitter.com",
                          "x.com", "linkedin.com", "whatsapp.com"} :
                  Contains(StripWs(e), n)
            /\ \/ QueryOf(StripWs(e)) = ""
               \/ \E k \in {"id=", "codigo=", "file=", "arquivo=", "doc="} :
                     Contains(Lower(QueryOf(StripWs(e))), k) } }

\* the endpoints of every token and page of the model, computed once
EndpointsOf ==
    [t \in { d \in DetailTokens : Contains(DetailRaw(d), "|") } |->
       [page \in {"form", "portal", "pdf", "down"} |->
          DetailCleaned(DetailCandidates(DetailPageUrl(t),
                                         DetailGet(DetailPageUrl(t), page)))]]

\* the endpoints that are a download.php
DownloadPhpEndpoints ==
    { e \in UNION { EndpointsOf[t][page] :
                      t \in DOMAIN EndpointsOf,
                      page \in {"form", "portal", "pdf", "down"} } :
        EndsWith(PathOf(e), "/download.php") }

\* what a POST meets: download.php answers a payload that carries the record
\* id under the key it accepts with a PDF, everything else is a 404
DetailPostResponse(endpoint, payload, accepts) ==
    IF /\ endpoint \in DownloadPhpEndpoints
       /\ accepts \in DOMAIN payload
       /\ payload[accepts] = "77"
    THEN [ok |-> TRUE, url |-> endpoint, ct |-> "application/pdf",
          forms |-> {}, content |-> "%PDF ata 77"]
    ELSE NoResponse

\* downloader.py 531-539
payload_variants(file_id) ==
    << [id |-> file_id],
       [codigo |-> file_id],
       [file |-> file_id],
       [arquivo |-> file_id],
       [doc |-> file_id],
       [op |-> "download", codigo |-> file_id],
       [acao |-> "download", codigo |-> file_id] >>

RECURSIVE sanitize_filename(_)
\* downloader.py 236-237 (without the final rstrip: no name of the model
\* ends in white space)
sanitize_filename(name) ==
    IF name = "" THEN ""
    ELSE (IF \/ IsWordChar(SubSeq(name, 1, 1)) /\ SubSeq(name, 1, 1) # "_"
             \/ SubSeq(name, 1, 1) \in {" ", ".", "_", "-"}
          THEN SubSeq(name, 1, 1) ELSE "")
         \o sanitize_filename(From(name, 2))

\* downloader.py 250-269; the responses of the model carry no
\* Content-Disposition header
guess_filename(resp) ==
    LET base == sanitize_filename(unquote(LastSegment(PathOf(resp.url), "/")))
        ct == Lower(resp.ct)
    IN IF base # "" THEN base
       ELSE IF Contains(ct, "pdf") THEN "documento.pdf"
       ELSE IF Contains(ct, "word") \/ Contains(ct, "officedocument")
            THEN "documento.docx"
       ELSE IF Contains(ct, "html") THEN "pagina.html"
       ELSE "arquivo.bin"

\* downloader.py 280-288: the file name with the extension of the content
\* type when it has none
BinaryFileName(resp) ==
    LET file_name == guess_filename(resp)
        ct == Lower(resp.ct)
    IN IF \E ext \in {".pdf", ".doc", ".docx", ".html", ".htm", ".xls", ".xlsx"} :
             EndsWith(Lower(file_name), ext)
       THEN file_name
       ELSE IF Contains(ct, "pdf") THEN file_name \o ".pdf"
       ELSE IF Contains(ct, "word") \/ Contains(ct, "officedocument")
            THEN file_name \o ".docx"
       ELSE IF Contains(ct, "html") THEN file_name \o ".html"
       ELSE file_name

\* downloader.py 293-296: dest, renamed with the time when it exists
DestName(file_name) ==
    IF file_name \in ddDisk
    THEN BeforeLast(file_name, ".") \o "_<time>." \o LastSegment(file_name, ".")
    ELSE file_name

\* downloader.py 472: the page URL's query already holds id=<file_id>
PageUrlHoldsId(token) ==
    Contains(Lower(QueryOf(DetailPageUrl(token))), "id=" \o DetailFileId(token))

\* downloader.py 464-472 and 334-360 applied to every token of the model,
\* computed once: whether the token splits at "|", its two parts, whether
\* the shortcut applies, and whether download_single_url takes the page URL
\* for a document by its shape
ParsedToken ==
    [t \in DetailTokens |->
       [valid    |-> Contains(DetailRaw(t), "|"),
        page_url |-> DetailPageUrl(t),
        file_id  |-> DetailFileId(t),
        holds_id |-> PageUrlHoldsId(t),
        doc_url  |-> \/ Contains(Lower(DetailPageUrl(t)), "wpdmdl=")
                     \/ \E ext \in {".pdf", ".doc", ".docx"} :
                           Contains(Lower(DetailPageUrl(t)), ext)]]

\* the Content-Type headers of the model and their lower-cased forms
LowerType ==
    [ct \in {"", "application/pdf", "text/html; charset=utf-8"} |-> Lower(ct)]

\* downloader.py 280-291 applied to every URL a binary response of the
\* model comes from, computed once: the file name and the reject-list test
SavedName ==
    [u \in DownloadPhpEndpoints
            \cup { DetailPageUrl(t) : t \in DetailTokens } |->
       [file_name |-> BinaryFileName([url |-> u, ct |-> "application/pdf"]),
        kept |-> is_probably_meeting_document(
                    BinaryFileName([url |-> u, ct |-> "application/pdf"]))]]

DetailInit ==
    /\ detail_url \in DetailTokens
    /\ ddPage \in {"form", "portal", "pdf", "down"}
    /\ ddAccepts \in {"id", "codigo", "none"}
    /\ ddPc = "parse"
    /\ ddLeft = {}
    /\ ddEndpoint = ""
    /\ ddPayload = 0
    /\ ddPosts = << >>
    /\ ddResp = NoResponse
    /\ ddSeen0 \in { {}, {sha1_bytes("%PDF ata 77")} }
    /\ ddSeen = ddSeen0
    /\ ddDisk \in { {}, {"download.php.pdf"} }
    /\ ddRet = None

DetailFrame == << detail_url, ddPage, ddAccepts, ddSeen0, OutsideDetail >>

\* downloader.py 463-473: the token is split; a token without "|" is
\* invalid; a page URL whose query holds the id goes to download_single_url
DetailParse ==
    /\ ddPc = "parse"
    /\ ddPc' = IF ~ParsedToken[detail_url].valid THEN "returned"
               ELSE IF ParsedToken[detail_url].holds_id THEN "single"
               ELSE "get_page"
    /\ UNCHANGED << ddLeft, ddEndpoint, ddPayload, ddPosts, ddResp, ddSeen,
                    ddDisk, ddRet, DetailFrame >>

\* downloader.py 323-453, download_single_url(page_url, ...): no response
\* returns None; a PDF content type or a document extension in the URL goes
\* to _download_binary_response; an HTML answer reaches the import of
\* extract_docs_from_html (370), a name core/discovery.py does not define:
\* ImportError; any other type returns None
DetailSingle ==
    /\ ddPc = "single"
    /\ \E resp \in { DetailGet(ParsedToken[detail_url].page_url, ddPage) } :
          /\ ddResp' = resp
          /\ ddPc' =
               IF ~resp.ok THEN "returned"
               ELSE IF \/ ParsedToken[detail_url].doc_url
                       \/ Contains(LowerType[resp.ct], "pdf")
                    THEN "binary"
               ELSE IF \/ Contains(LowerType[resp.ct], "html")
                       \/ Contains(Lower(SubSeq(resp.content, 1, 5)), "<html")
                    THEN "raised"
               ELSE "returned"
    /\ UNCHANGED << ddLeft, ddEndpoint, ddPayload, ddPosts, ddSeen, ddDisk,
                    ddRet, DetailFrame >>

\* downloader.py 475-529: the page is fetched and the endpoints collected
DetailGetPage ==
    /\ ddPc = "get_page"
    /\ \E resp \in { DetailGet(ParsedToken[detail_url].page_url, ddPage) } :
       \E candidates \in { EndpointsOf[detail_url][ddPage] } :
          IF ~resp.ok \/ resp.content = "" \/ candidates = {}
          THEN /\ ddPc' = "returned"
               /\ ddLeft' = ddLeft
          ELSE /\ ddPc' = "post"
               /\ ddLeft' = candidates
    /\ UNCHANGED << ddEndpoint, ddPayload, ddPosts, ddResp, ddSeen, ddDisk,
                    ddRet, DetailFrame >>

\* the chain never stops at a response
ResponseNeverAccepted(resp) == FALSE

\* downloader.py 544-547: the response exists and its declared content type
\* is a binary/document type
ResponseAccepted(resp) ==
    /\ resp.ok
    /\ \E t \in {"pdf", "octet-stream", "binary", "msword", "officedocument"} :
          Contains(LowerType[resp.ct], t)

\* downloader.py 541-548: one POST.  candidates is a set of strings: the
\* order in which the outer loop reaches the endpoints is not fixed.
DetailPost ==
    /\ ddPc = "post"
    /\ \E endpoint \in (IF \/ ddEndpoint = ""
                          \/ ddPayload = Len(payload_variants(""))
                       THEN ddLeft ELSE {ddEndpoint}) :
       \E k \in { IF endpoint = ddEndpoint THEN ddPayload + 1 ELSE 1 } :
       \E resp \in { DetailPostResponse(
                        endpoint,
                        payload_variants(ParsedToken[detail_url].file_id)[k],
                        ddAccepts) } :
          /\ ddEndpoint' = endpoint
          /\ ddPayload' = k
          /\ ddPosts' = Append(ddPosts, << endpoint, k >>)
          /\ ddLeft' = ddLeft \ {endpoint}
          /\ IF ResponseAccepted(resp)
             THEN ddPc' = "binary" /\ ddResp' = resp
             ELSE ddPc' = ddPc /\ ddResp' = ddResp
    /\ UNCHANGED << ddSeen, ddDisk, ddRet, DetailFrame >>

\* downloader.py 541-550: every endpoint got every payload: return None
DetailExhausted ==
    /\ ddPc = "post"
    /\ ddLeft = {}
    /\ ddPayload = Len(payload_variants(""))
    /\ ddPc' = "returned"
    /\ UNCHANGED << ddLeft, ddEndpoint, ddPayload, ddPosts, ddResp, ddSeen,
                    ddDisk, ddRet, DetailFrame >>

\* downloader.py 274-318, _download_binary_response: the name is tested
\* against the reject-list, the content hash against seen_hashes, and the
\* file is written (the write may fail, after the hash was recorded)
DetailBinary(write_ok) ==
    /\ ddPc = "binary"
    /\ ddPc' = "returned"
    /\ \E file_name \in { SavedName[ddResp.url].file_name } :
          IF ~SavedName[ddResp.url].kept
          THEN UNCHANGED << ddSeen, ddDisk, ddRet >>
          ELSE IF sha1_bytes(ddResp.content) \in ddSeen
          THEN UNCHANGED << ddSeen, ddDisk, ddRet >>
          ELSE /\ ddSeen' = ddSeen \cup {sha1_bytes(ddResp.content)}
               /\ IF write_ok
                  THEN /\ ddDisk' = ddDisk \cup {DestName(file_name)}
                       /\ ddRet' = [none |-> FALSE,
                                    file_path |-> DestName(file_name),
                                    file_url |-> ddResp.url]
                  ELSE UNCHANGED << ddDisk, ddRet >>
    /\ UNCHANGED << ddLeft, ddEndpoint, ddPayload, ddPosts, ddResp,
                    DetailFrame >>

DetailNext ==
    \/ DetailParse
    \/ DetailSingle
    \/ DetailGetPage
    \/ DetailPost
    \/ DetailExhausted
    \/ \E write_ok \in BOOLEAN : DetailBinary(write_ok)

\* C17: Scenario C.  Resolving detail://<abs-url>/pagina?id=77|77 against a
\* page whose form posts to download.php, where the POST of {"id": "77"}
\* to download.php answers a PDF, saves exactly one file and grows the
\* seen-hash index by exactly one entry.
C17_ScenarioC ==
    (/\ ddPc \in {"returned", "raised"}
     /\ detail_url = "detail://https://rpps.gov.br/pagina?id=77|77"
     /\ ddPage = "form"
     /\ ddAccepts = "id"
     /\ ddSeen0 = {})
    => /\ ddPc = "returned"
       /\ ddRet # None
       /\ ddRet.file_path \in ddDisk
       /\ Cardinality(ddSeen) = Cardinality(ddSeen0) + 1

\* C29: download_single_url on a resource whose GET answers HTML re-runs
\* the extraction on the HTML and follows its candidates; when none of them
\* resolves to a document it returns None: it does not raise.
C29_HtmlAnswerNeverRaises ==
    (/\ Contains(DetailRaw(detail_url), "|")
     /\ PageUrlHoldsId(detail_url)
     /\ ddPage = "form"
     /\ ddPc \notin {"parse", "single"})
    => /\ ddPc = "returned"
       /\ ddRet = None
       /\ ddSeen = ddSeen0

\* the query string q holds the pair key=value as one of its &-separated
\* parameters
QueryHasParam(q, key, value) ==
    \/ q = key \o "=" \o value
    \/ StartsWith(q, key \o "=" \o value \o "&")
    \/ EndsWith(q, "&" \o key \o "=" \o value)
    \/ Contains(q, "&" \o key \o "=" \o value \o "&")

\* the page URL of the token carries the record id under the key id
PageUrlEncodesId(token) ==
    QueryHasParam(Lower(QueryOf(DetailPageUrl(token))), "id",
                  DetailFileId(token))

\* C30: download_detail_page hands the page URL to download_single_url,
\* sending no POST, exactly when the query of the page URL carries the
\* parameter id with the record id as its whole value; a query that only
\* holds the text id=<record id> inside another key or a longer value goes
\* through the page and its POST endpoints.
C30_ShortcutExactId ==
    Contains(DetailRaw(detail_url), "|") =>
       /\ ddPc = "single" => PageUrlEncodesId(detail_url)
       /\ PageUrlEncodesId(detail_url) =>
             (ddPc \notin {"get_page", "post"} /\ ddPayload = 0)

\* the query string q holds a parameter whose key is key
QueryHasKey(q, key) ==
    \/ StartsWith(q, key \o "=")
    \/ Contains(q, "&" \o key \o "=")

\* the endpoint points at a social-media host
PointsAtSocialHost(ep) ==
    \E h \in {"facebook.com", "instagram.com", "twitter.com", "x.com",
              "linkedin.com", "whatsapp.com"} :
       \/ Lower(Netloc(ep)) = h
       \/ EndsWith(Lower(Netloc(ep)), "." \o h)

\* C31: download_detail_page never POSTs to an endpoint that points at a
\* social-media host, nor to an endpoint whose query string holds none of
\* the file/record-identifier keys id, codigo, file, arquivo, doc.
C31_EndpointFilter ==
    \A i \in 1..Len(ddPosts) :
       /\ ~PointsAtSocialHost(ddPosts[i][1])
       /\ QueryOf(ddPosts[i][1]) # "" =>
             \E key \in {"id", "codigo", "file", "arquivo", "doc"} :
                QueryHasKey(Lower(QueryOf(ddPosts[i][1])), key)

\* the endpoints the POST loop of the call goes through
DetailEndpoints ==
    IF ParsedToken[detail_url].valid THEN EndpointsOf[detail_url][ddPage]
    ELSE {}

\* the i-th POST of the call was answered with a binary/document type
PostAccepted(i) ==
    \E resp \in { DetailPostResponse(
                     ddPosts[i][1],
                     payload_variants(DetailFileId(detail_url))[ddPosts[i][2]],
                     ddAccepts) } :
       /\ resp.ok
       /\ \E t \in {"pdf", "octet-stream", "binary", "msword",
                    "officedocument"} : Contains(LowerType[resp.ct], t)

\* C32: download_detail_page tries the endpoint x payload combinations one
\* at a time, each at most once and the payloads of an endpoint in their
\* order; only the last POST made can have a binary/document answer, and
\* after it no further POST is made; when every POST failed the call has
\* tried every combination and returns None; the number of POSTs never
\* exceeds |endpoints| x 7, and a call that entered the chain returns.
C32_PostChain ==
    /\ [] (\A i, j \in 1..Len(ddPosts) : ddPosts[i] = ddPosts[j] => i = j)
    /\ [] (\A i \in 1..Len(ddPosts) :
             /\ ddPosts[i][1] \in DetailEndpoints
             /\ ddPosts[i][2] = ((i - 1) % Len(payload_variants(""))) + 1
             /\ (i > 1 /\ ddPosts[i][2] > 1) => ddPosts[i][1] = ddPosts[i - 1][1]
             /\ i < Len(ddPosts) => ~PostAccepted(i))
    /\ [] (Len(ddPosts) <= Cardinality(DetailEndpoints)
                              * Len(payload_variants("")))
    /\ [] ((ddPc = "binary" /\ ddPosts # << >>) => PostAccepted(Len(ddPosts)))
    /\ [] ((ddPc = "returned" /\ ddPosts # << >>
                /\ ~PostAccepted(Len(ddPosts)))
            => /\ ddRet = None
               /\ Len(ddPosts) = Cardinality(DetailEndpoints)
                                    * Len(payload_variants("")))
    /\ [][ (ddPc \in {"binary", "returned"}) => (ddPosts' = ddPosts) ]_vars
    /\ [][ Len(ddPosts') <= Len(ddPosts) + 1 ]_vars
    /\ (ddPc = "post") ~> (ddPc = "returned")

\* a call whose second POST to download.php was answered with the PDF: it
\* returned the file and left the remaining endpoints untried
C32_Witness ==
    /\ ddPc = "returned"
    /\ ddAccepts = "codigo"
    /\ Len(ddPosts) > 1
    /\ PostAccepted(Len(ddPosts))
    /\ ddLeft # {}
    /\ ddRet # None

(***************************************************************************)
(* core/downloader.py : _download_binary_response under concurrent callers *)
(***************************************************************************)
\* largest number of calls in flight at once
MaxBin == 3

\* the last second int(time.time()) reaches while the calls run
MaxClock == 1

\* the responses handed to the calls: the requested URL, and the response
\* with its final URL, content type and bytes.  1 and 2 carry the same
\* bytes under different names; 1 and 3 derive the same name from different
\* bytes, and so does 5; 4 was requested under a neutral URL and redirected
\* to a file whose name is on the reject-list
BinResponse(k) ==
    CASE k = 1 -> [url |-> "https://a.gov.br/docs/ata-03.pdf",
                   resp |-> [ok |-> TRUE, forms |-> {},
                             url |-> "https://a.gov.br/docs/ata-03.pdf",
                             ct |-> "application/pdf",
                             content |-> "%PDF ata 03/2024"]]
      [] k = 2 -> [url |-> "https://a.gov.br/download?f=17",
                   resp |-> [ok |-> TRUE, forms |-> {},
                             url |-> "https://a.gov.br/download?f=17",
                             ct |-> "application/pdf",
                             content |-> "%PDF ata 03/2024"]]
      [] k = 3 -> [url |-> "https://a.gov.br/2023/ata-03.pdf",
                   resp |-> [ok |-> TRUE, forms |-> {},
                             url |-> "https://a.gov.br/2023/ata-03.pdf",
                             ct |-> "application/pdf",
                             content |-> "%PDF ata 04/2024"]]
      [] k = 4 -> [url |-> "https://a.gov.br/download?f=18",
                   resp |-> [ok |-> TRUE, forms |-> {},
                             url |-> "https://a.gov.br/files/edital-2024.pdf",
                             ct |-> "application/pdf",
                             content |-> "%PDF edital"]]
      [] OTHER -> [url |-> "https://a.gov.br/2022/ata-03.pdf",
                   resp |-> [ok |-> TRUE, forms |-> {},
                             url |-> "https://a.gov.br/2022/ata-03.pdf",
                             ct |-> "application/pdf",
                             content |-> "%PDF ata 77"]]

\* the numbers of the responses
BinResponseIds == 1..5

\* the calls in flight: the callers are interchangeable, so the responses
\* are listed in the order of their numbers
BinCallLists ==
    UNION { { q \in [1..n -> BinResponseIds] : \A i \in 1..(n - 1) : q[i] <= q[i + 1] } :
            n \in 1..MaxBin }

BinCallers == 1..Len(bnCalls)

\* downloader.py 280-288: file_name of each response, computed once
BinFileNames == [k \in BinResponseIds |-> BinaryFileName(BinResponse(k).resp)]

\* downloader.py 290: is_probably_meeting_document(file_name), computed once
BinNameAccepted ==
    [k \in BinResponseIds |-> is_probably_meeting_document(BinFileNames[k])]

\* the response call c was handed, and its bytes
BinResp(c) == BinResponse(bnCalls[c]).resp
BinContent(c) == BinResp(c).content

\* Path.write_bytes: the file dest holds content, whatever it held before
WriteBytes(disk, dest, content) ==
    { f \in disk : f.name # dest } \cup { [name |-> dest, content |-> content] }

\* downloader.py 293-296: dest, renamed with the time in seconds when a file
\* of that name exists
BinDest(file_name, disk, now) ==
    IF \E f \in disk : f.name = file_name
    THEN BeforeLast(file_name, ".") \o "_" \o ToString(now) \o "."
           \o LastSegment(file_name, ".")
    ELSE file_name

\* mutant of LockIsFree: the lock is never waited for
LockIsFreeAlways == TRUE

\* threading.Lock.acquire(): the call goes on when no call holds the lock
LockIsFree == seen_hashes_lock = 0

BinInit ==
    /\ bnCalls \in BinCallLists
    /\ bnPc = [c \in 1..Len(bnCalls) |-> "start"]
    /\ bnDest = [c \in 1..Len(bnCalls) |-> ""]
    /\ bnSeen = {}
    /\ seen_hashes_lock = 0
    /\ bnDisk = {}
    /\ bnClock = 0
    /\ bnRet = [c \in 1..Len(bnCalls) |-> None]
    /\ bnWrites = << >>

\* what a step of one call leaves alone besides the calls themselves
BinFrame == << bnCalls, OutsideBinary >>

\* downloader.py 280-296: the file name is derived and tested against the
\* reject-list; dest is the name, or the name with the time when a file of
\* that name exists at this moment
BinName(c) ==
    /\ bnPc[c] = "start"
    /\ \E file_name \in { BinFileNames[bnCalls[c]] } :
          IF ~BinNameAccepted[bnCalls[c]]
          THEN /\ bnPc' = [bnPc EXCEPT ![c] = "done"]
               /\ bnDest' = bnDest
          ELSE /\ bnPc' = [bnPc EXCEPT ![c] = "lock"]
               /\ bnDest' = [bnDest EXCEPT
                               ![c] = BinDest(file_name, bnDisk, bnClock)]
    /\ UNCHANGED << bnSeen, seen_hashes_lock, bnDisk, bnClock, bnRet,
                    bnWrites, BinFrame >>

\* downloader.py 301: with seen_hashes_lock: the lock is acquired
BinAcquire(c) ==
    /\ bnPc[c] = "lock"
    /\ LockIsFree
    /\ seen_hashes_lock' = c
    /\ bnPc' = [bnPc EXCEPT ![c] = "test"]
    /\ UNCHANGED << bnDest, bnSeen, bnDisk, bnClock, bnRet, bnWrites,
                    BinFrame >>

\* downloader.py 302-303: if file_hash in seen_hashes: return None (leaving
\* the with block releases the lock)
BinTest(c) ==
    /\ bnPc[c] = "test"
    /\ IF sha1_bytes(BinContent(c)) \in bnSeen
       THEN /\ bnPc' = [bnPc EXCEPT ![c] = "done"]
            /\ seen_hashes_lock' = 0
       ELSE /\ bnPc' = [bnPc EXCEPT ![c] = "insert"]
            /\ seen_hashes_lock' = seen_hashes_lock
    /\ UNCHANGED << bnDest, bnSeen, bnDisk, bnClock, bnRet, bnWrites,
                    BinFrame >>

\* downloader.py 304: seen_hashes.add(file_hash); the with block ends and
\* the lock is released
BinInsert(c) ==
    /\ bnPc[c] = "insert"
    /\ bnSeen' = bnSeen \cup { sha1_bytes(BinContent(c)) }
    /\ seen_hashes_lock' = 0
    /\ bnPc' = [bnPc EXCEPT ![c] = "write"]
    /\ UNCHANGED << bnDest, bnDisk, bnClock, bnRet, bnWrites, BinFrame >>

\* downloader.py 306-318: dest.write_bytes(content) and the result; when
\* the write raises (the file could not be created) the except clause
\* prints and returns None
BinWrite(c, write_ok) ==
    /\ bnPc[c] = "write"
    /\ bnPc' = [bnPc EXCEPT ![c] = "done"]
    /\ IF write_ok
       THEN /\ bnDisk' = WriteBytes(bnDisk, bnDest[c], BinContent(c))
            /\ bnRet' = [bnRet EXCEPT ![c] =
                           [none |-> FALSE, file_path |-> bnDest[c],
                            file_url |-> BinResponse(bnCalls[c]).url]]
            /\ bnWrites' = Append(bnWrites, << c, bnDest[c] >>)
       ELSE UNCHANGED << bnDisk, bnRet, bnWrites >>
    /\ UNCHANGED << bnDest, bnSeen, seen_hashes_lock, bnClock, BinFrame >>

\* a second passes while calls are running
BinTick ==
    /\ bnClock < MaxClock
    /\ \E c \in BinCallers : bnPc[c] # "done"
    /\ bnClock' = bnClock + 1
    /\ UNCHANGED << bnPc, bnDest, bnSeen, seen_hashes_lock, bnDisk, bnRet,
                    bnWrites, BinFrame >>

BinNext ==
    \/ \E c \in BinCallers : BinName(c)
    \/ \E c \in BinCallers : BinAcquire(c)
    \/ \E c \in BinCallers : BinTest(c)
    \/ \E c \in BinCallers : BinInsert(c)
    \/ \E c \in BinCallers, write_ok \in BOOLEAN : BinWrite(c, write_ok)
    \/ BinTick

\* C25: among concurrent calls of _download_binary_response that share the
\* seen set and the lock and carry the same bytes, at most one returns a
\* DownloadResult and at most one writes a file; the membership test and the
\* insertion are made by the call that holds the lock.
C25_CheckInsertUnderLock ==
    /\ \A c \in BinCallers :
          bnPc[c] \in {"test", "insert"} => seen_hashes_lock = c
    /\ \A c, d \in BinCallers :
          (c # d /\ BinContent(c) = BinContent(d)) =>
             ~(bnRet[c] # None /\ bnRet[d] # None)
    /\ \A i, j \in 1..Len(bnWrites) :
          BinContent(bnWrites[i][1]) = BinContent(bnWrites[j][1]) => i = j

\* three calls with the same bytes, two of them with different names, have
\* all returned: one wrote its file and returned a result, two returned None
C25_Witness ==
    /\ Len(bnCalls) = 3
    /\ \A c \in BinCallers : bnPc[c] = "done"
    /\ \A c, d \in BinCallers : BinContent(c) = BinContent(d)
    /\ \E c, d \in BinCallers : bnCalls[c] # bnCalls[d]
    /\ Cardinality({ c \in BinCallers : bnRet[c] # None }) = 1
    /\ Len(bnWrites) = 1

\* C26: when two responses with different bytes derive the same file name,
\* both are kept as two distinct files and neither overwrites the other,
\* under every interleaving: every call that returned a result finds its
\* bytes in the file it reported, and no two results report the same file.
C26_NameCollisionSafe ==
    /\ \A c \in BinCallers :
          bnRet[c] # None =>
             [name |-> bnRet[c].file_path, content |-> BinContent(c)] \in bnDisk
    /\ \A c, d \in BinCallers :
          (c # d /\ bnRet[c] # None /\ bnRet[d] # None) =>
             bnRet[c].file_path # bnRet[d].file_path

\* C27: a hash is in the seen set only if a file with that content was
\* written (or is being written by the call that just inserted it): a write
\* that fails leaves the seen set as it was before the attempt.
C27_SeenOnlyIfWritten ==
    \A h \in bnSeen :
       \/ \E i \in 1..Len(bnWrites) : sha1_bytes(BinContent(bnWrites[i][1])) = h
       \/ \E c \in BinCallers :
             bnPc[c] = "write" /\ sha1_bytes(BinContent(c)) = h

\* downloader.py 250-288: the file name _download_binary_response derives
\* for a PDF response whose final URL is url
DerivedName(url) ==
    BinaryFileName([url |-> url, ct |-> "application/pdf"])

\* the links whose derived name is on the reject-list, computed once
RejectedLinks ==
    { u \in { ls[i] : ls \in LinkLists, i \in 1..2 }
             \cup { ls[Len(ls)] : ls \in LinkLists } :
        ~is_probably_meeting_document(DerivedName(u)) }

\* C28: a resource whose derived file name matches the reject-list is
\* discarded at persistence time by download_files_parallel as by every
\* other entry point: no result is returned for it, no file with its bytes
\* is written and its hash is not recorded.
C28_RejectListAtPersistence ==
    \A t \in Tasks :
        links[t] \in RejectedLinks =>
           /\ taskRet[t] = None
           /\ taskPc[t] # "write"

\* C33: a link of the form detail://<page-url>|<record-id> is resolved by
\* the deferred chain and never handed to a plain GET; here, no task of
\* download_files_parallel reaches its requests.get with such a link.
C33_DispatchByVariant ==
    \A t \in Tasks : StartsWith(links[t], "detail://") => taskPc[t] # "get"

(***************************************************************************)
(* The HTTP helpers: safe_get_text (discovery.py), robust_request           *)
(* (downloader.py)                                                          *)
(***************************************************************************)
\* length of the transport's script: one more request than the helpers send
MaxRequests == 4

\* discovery.py 34
MAX_REQUEST_RETRIES == 3

\* downloader.py 36
REQUEST_RETRIES == 3

\* what one request meets: a response with a status code, or an exception
\* of requests (timeout, connection error)
Outcomes == {"200", "204", "404", "500", "timeout", "connection"}

IsException(o) == o \in {"timeout", "connection"}

StatusOf(o) ==
    CASE o = "200" -> 200
      [] o = "204" -> 204
      [] o = "404" -> 404
      [] o = "500" -> 500
      [] OTHER     -> 0

\* range(MAX_REQUEST_RETRIES) / range(retries) with the default every caller
\* uses
Retries(fn) ==
    IF fn = "safe_get_text" THEN MAX_REQUEST_RETRIES ELSE REQUEST_RETRIES

\* mutant of MoreAttempts: the loop has no attempt count
MoreAttemptsUnbounded(fn, n) == TRUE

\* discovery.py 121, downloader.py 135: the for loop goes on after n attempts
MoreAttempts(fn, n) == n < Retries(fn)

\* an exception is raised inside the try block: by requests itself, or by
\* resp.raise_for_status() for a 4xx/5xx status (downloader.py 146)
RaisesInTry(fn, o) ==
    \/ IsException(o)
    \/ fn = "robust_request" /\ StatusOf(o) >= 400

\* discovery.py 127, downloader.py 148: except Exception
ExceptCatches(fn, o) == TRUE

\* discovery.py 125-126: status_code == 200 returns r.text;
\* downloader.py 146-147: a response that raise_for_status accepts is returned
AttemptReturns(fn, o) ==
    /\ ~RaisesInTry(fn, o)
    /\ fn = "safe_get_text" => StatusOf(o) = 200

\* the value handed back by the attempt that returns
ResponseOf(k, o) == [none |-> FALSE, attempt |-> k, status |-> StatusOf(o)]

HttpInit ==
    /\ htFn \in {"safe_get_text", "robust_request"}
    /\ htScript \in [1..MaxRequests -> Outcomes]
    /\ htRequests = 0
    /\ htPc = "try"
    /\ htRet = None

\* discovery.py 122-128, downloader.py 136-151: one pass through the try
\* block
HttpAttempt ==
    /\ htPc = "try"
    /\ htRequests < MaxRequests
    /\ htRequests' = htRequests + 1
    /\ \E o \in {htScript[htRequests + 1]} :
          IF AttemptReturns(htFn, o)
          THEN /\ htPc' = "returned"
               /\ htRet' = ResponseOf(htRequests + 1, o)
          ELSE IF RaisesInTry(htFn, o) /\ ~ExceptCatches(htFn, o)
          THEN /\ htPc' = "raised"
               /\ htRet' = htRet
          ELSE /\ htPc' = "backoff"
               /\ htRet' = htRet
    /\ UNCHANGED << htFn, htScript, OutsideHttp >>

\* discovery.py 129, downloader.py 152: the sleep after a failed attempt,
\* then the next pass of the loop
HttpBackoffRetry ==
    /\ htPc = "backoff"
    /\ MoreAttempts(htFn, htRequests)
    /\ htPc' = "try"
    /\ UNCHANGED << htFn, htScript, htRequests, htRet, OutsideHttp >>

\* discovery.py 129-130, downloader.py 152-154: the sleep after the last
\* attempt, then return None
HttpGiveUp ==
    /\ htPc = "backoff"
    /\ ~MoreAttempts(htFn, htRequests)
    /\ htPc' = "returned"
    /\ htRet' = None
    /\ UNCHANGED << htFn, htScript, htRequests, OutsideHttp >>

HttpNext ==
    \/ HttpAttempt
    \/ HttpBackoffRetry
    \/ HttpGiveUp

\* the first request of the script that the helper accepts (0: none among
\* the attempts the helper may make)
FirstAccepted ==
    IF \E k \in 1..Retries(htFn) : AttemptReturns(htFn, htScript[k])
    THEN CHOOSE k \in 1..Retries(htFn) :
            /\ AttemptReturns(htFn, htScript[k])
            /\ \A j \in 1..(k - 1) : ~AttemptReturns(htFn, htScript[j])
    ELSE 0

\* C12: safe_get_text and robust_request send at most 3 requests, return the
\* response of the first attempt that succeeds without sending another
\* request, return None after the last failed attempt, and never raise,
\* whatever timeouts, connection errors and status codes the requests meet.
C12_BoundedRetryNeverRaises ==
    /\ htPc # "raised"
    /\ htRequests <= 3
    /\ htPc = "returned" =>
          IF FirstAccepted = 0
          THEN htRet = None /\ htRequests = 3
          ELSE /\ htRet = ResponseOf(FirstAccepted, htScript[FirstAccepted])
               /\ htRequests = FirstAccepted

C12_Witness ==
    /\ htPc = "returned"
    /\ htRet = None
    /\ htRequests = 3
    /\ \E k \in 1..3 : IsException(htScript[k])
    /\ \E k \in 1..3 : StatusOf(htScript[k]) >= 400
    /\ AttemptReturns(htFn, htScript[4])

(***************************************************************************)
(* core/downloader.py : _get_domain_semaphore                              *)
(***************************************************************************)
\* the threads that call _get_domain_semaphore at the same time
MaxCallers == 3

\* the hosts the callers ask for
SemDomains == {"a.gov.br", "b.gov.br"}

GsCalls == DOMAIN gsPc

\* downloader.py 555-556 and the calls that enter: the dict is empty, the
\* lock free, and every caller is at the first test with its domain
SemaphoreInit ==
    /\ _domain_locks = [d \in SemDomains |-> 0]
    /\ _domain_locks_lock = 0
    /\ semaphores = << >>
    /\ \E n \in 1..MaxCallers :
          /\ gsDomain \in [1..n -> SemDomains]
          /\ gsPc = [c \in 1..n |-> "test"]
          /\ gsNew = [c \in 1..n |-> 0]
          /\ gsRet = [c \in 1..n |-> 0]
    /\ gsLocked = {}

\* downloader.py 560: if domain in _domain_locks
GsTest(c) ==
    /\ gsPc[c] = "test"
    /\ gsPc' = [gsPc EXCEPT ![c] = IF _domain_locks[gsDomain[c]] # 0
                                   THEN "read" ELSE "acquire"]
    /\ UNCHANGED << _domain_locks, _domain_locks_lock, semaphores, gsDomain,
                    gsNew, gsLocked, gsRet, OutsideSemaphore >>

\* downloader.py 561: return _domain_locks[domain]
GsRead(c) ==
    /\ gsPc[c] = "read"
    /\ gsRet' = [gsRet EXCEPT ![c] = _domain_locks[gsDomain[c]]]
    /\ gsPc' = [gsPc EXCEPT ![c] = "done"]
    /\ UNCHANGED << _domain_locks, _domain_locks_lock, semaphores, gsDomain,
                    gsNew, gsLocked, OutsideSemaphore >>

\* downloader.py 562: with _domain_locks_lock, the lock is acquired
GsAcquire(c) ==
    /\ gsPc[c] = "acquire"
    /\ _domain_locks_lock = 0
    /\ _domain_locks_lock' = c
    /\ gsLocked' = gsLocked \cup {c}
    /\ gsPc' = [gsPc EXCEPT ![c] = "retest"]
    /\ UNCHANGED << _domain_locks, semaphores, gsDomain, gsNew, gsRet,
                    OutsideSemaphore >>

\* mutant of StillAbsent: the dict is not tested again under the lock
StillAbsentUntested(domain) == TRUE

\* downloader.py 563: if domain not in _domain_locks
StillAbsent(domain) == _domain_locks[domain] = 0

\* downloader.py 563: the second test, under the lock
GsRetest(c) ==
    /\ gsPc[c] = "retest"
    /\ gsPc' = [gsPc EXCEPT ![c] = IF StillAbsent(gsDomain[c])
                                   THEN "create" ELSE "reread"]
    /\ UNCHANGED << _domain_locks, _domain_locks_lock, semaphores, gsDomain,
                    gsNew, gsLocked, gsRet, OutsideSemaphore >>

\* downloader.py 564: threading.BoundedSemaphore(DOMAIN_LIMIT) is built
GsCreate(c) ==
    /\ gsPc[c] = "create"
    /\ semaphores' = Append(semaphores,
                            [domain |-> gsDomain[c], value |-> DOMAIN_LIMIT])
    /\ gsNew' = [gsNew EXCEPT ![c] = Len(semaphores) + 1]
    /\ gsPc' = [gsPc EXCEPT ![c] = "store"]
    /\ UNCHANGED << _domain_locks, _domain_locks_lock, gsDomain, gsLocked,
                    gsRet, OutsideSemaphore >>

\* downloader.py 564: _domain_locks[domain] = the new semaphore
GsStore(c) ==
    /\ gsPc[c] = "store"
    /\ _domain_locks' = [_domain_locks EXCEPT ![gsDomain[c]] = gsNew[c]]
    /\ gsPc' = [gsPc EXCEPT ![c] = "reread"]
    /\ UNCHANGED << _domain_locks_lock, semaphores, gsDomain, gsNew,
                    gsLocked, gsRet, OutsideSemaphore >>

\* downloader.py 565: the value of return _domain_locks[domain], read under
\* the lock
GsReread(c) ==
    /\ gsPc[c] = "reread"
    /\ gsRet' = [gsRet EXCEPT ![c] = _domain_locks[gsDomain[c]]]
    /\ gsPc' = [gsPc EXCEPT ![c] = "release"]
    /\ UNCHANGED << _domain_locks, _domain_locks_lock, semaphores, gsDomain,
                    gsNew, gsLocked, OutsideSemaphore >>

\* downloader.py 562-565: the with block is left, the lock released, and
\* the call returns
GsRelease(c) ==
    /\ gsPc[c] = "release"
    /\ _domain_locks_lock = c
    /\ _domain_locks_lock' = 0
    /\ gsPc' = [gsPc EXCEPT ![c] = "done"]
    /\ UNCHANGED << _domain_locks, semaphores, gsDomain, gsNew, gsLocked,
                    gsRet, OutsideSemaphore >>

SemaphoreNext ==
    \E c \in GsCalls :
       \/ GsTest(c)
       \/ GsRead(c)
       \/ GsAcquire(c)
       \/ GsRetest(c)
       \/ GsCreate(c)
       \/ GsStore(c)
       \/ GsReread(c)
       \/ GsRelease(c)

\* the semaphores constructed for domain
SemaphoresOf(domain) ==
    { i \in 1..Len(semaphores) : semaphores[i].domain = domain }

\* C39: _get_domain_semaphore returns the same semaphore object to every
\* caller for the same domain under any interleaving of concurrent first
\* calls: at most one BoundedSemaphore is ever constructed per domain, its
\* capacity is DOMAIN_LIMIT, and every call that returned, returned the
\* semaphore of its domain.
C39_OneSemaphorePerDomain ==
    /\ \A d \in SemDomains : Cardinality(SemaphoresOf(d)) <= 1
    /\ \A i \in 1..Len(semaphores) : semaphores[i].value = DOMAIN_LIMIT
    /\ \A c \in GsCalls :
          gsPc[c] = "done" =>
             /\ gsRet[c] \in SemaphoresOf(gsDomain[c])
             /\ gsRet[c] = _domain_locks[gsDomain[c]]
    /\ \A c1, c2 \in GsCalls :
          (gsPc[c1] = "done" /\ gsPc[c2] = "done" /\
           gsDomain[c1] = gsDomain[c2]) => gsRet[c1] = gsRet[c2]

\* three first calls raced: two asked for the same domain, both found the
\* key absent and went through the lock, and both returned the one
\* semaphore of that domain; the third got the semaphore of another domain
C39_Witness ==
    /\ \A c \in GsCalls : gsPc[c] = "done"
    /\ \E c1, c2, c3 \in GsCalls :
          /\ c1 # c2
          /\ gsDomain[c1] = gsDomain[c2]
          /\ {c1, c2} \subseteq gsLocked
          /\ gsRet[c1] = gsRet[c2]
          /\ gsDomain[c3] # gsDomain[c1]
          /\ gsRet[c3] # gsRet[c1]
    /\ Len(semaphores) = 2

(***************************************************************************)
(* Specifications                                                          *)
(***************************************************************************)
RunnerIdle ==
    /\ ruMode = "parallel"
    /\ ruWorkers = 0
    /\ ruPc = "returned"
    /\ future = << >>
    /\ consumed = {}
    /\ results = << >>
    /\ yielded = << >>
    /\ deliveries = << >>

ExtractIdle ==
    /\ exBase = ""
    /\ exDoc = << >>
    /\ exNet = "up"
    /\ exPc = "idle"
    /\ found = << >>
    /\ exOut = << >>

CrawlIdle ==
    /\ base_url = ""
    /\ max_depth = 0
    /\ driver = "none"
    /\ all_found_files = << >>
    /\ to_visit_queue = << >>
    /\ visited_urls = {}
    /\ found_primary_target_page = FALSE
    /\ crPc = "idle"
    /\ final_files = << >>
    /\ fetched = {}
    /\ rendered = {}
    /\ appended = << >>
    /\ refused = {}
    /\ session = "none"
    /\ abandon_signal = FALSE
    /\ render_log = << >>
    /\ dynamic_log = {}

HttpIdle ==
    /\ htFn = "safe_get_text"
    /\ htScript = << >>
    /\ htRequests = 0
    /\ htPc = "idle"
    /\ htRet = None

DetailIdle ==
    /\ detail_url = ""
    /\ ddPage = "down"
    /\ ddAccepts = "none"
    /\ ddPc = "idle"
    /\ ddLeft = {}
    /\ ddEndpoint = ""
    /\ ddPayload = 0
    /\ ddPosts = << >>
    /\ ddResp = NoResponse
    /\ ddSeen0 = {}
    /\ ddSeen = {}
    /\ ddDisk = {}
    /\ ddRet = None

SemaphoreIdle ==
    /\ _domain_locks = [d \in SemDomains |-> 0]
    /\ _domain_locks_lock = 0
    /\ semaphores = << >>
    /\ gsDomain = << >>
    /\ gsPc = << >>
    /\ gsNew = << >>
    /\ gsLocked = {}
    /\ gsRet = << >>

BinaryIdle ==
    /\ bnCalls = << >>
    /\ bnPc = << >>
    /\ bnDest = << >>
    /\ bnSeen = {}
    /\ seen_hashes_lock = 0
    /\ bnDisk = {}
    /\ bnClock = 0
    /\ bnRet = << >>
    /\ bnWrites = << >>

InitDL ==
    DLInit /\ RunnerIdle /\ ExtractIdle /\ CrawlIdle /\ HttpIdle /\ DetailIdle /\
    BinaryIdle /\ SemaphoreIdle

\* download_files_parallel, called up to MaxCalls times
SpecDL == InitDL /\ [][DLNext]_vars

InitRunner ==
    RunnerInit /\ DLInit /\ ExtractIdle /\ CrawlIdle /\ HttpIdle /\ DetailIdle /\
    BinaryIdle /\ SemaphoreIdle

\* run_discovery_parallel / run_discovery_streaming; the pool runs every
\* submitted crawl and each crawl returns or raises.
SpecRunner == InitRunner /\ [][RunnerNext]_vars /\ WF_vars(RunnerNext)

InitPipeline ==
    RunnerInit /\ ruMode = "parallel" /\ DLInit /\ ExtractIdle /\ CrawlIdle /\
    HttpIdle /\ DetailIdle /\ BinaryIdle /\ SemaphoreIdle

\* app.main: the discovery of every site, then the download of each site
SpecPipeline == InitPipeline /\ [][PipelineNext]_vars

InitDiscovery ==
    \/ ExtractInit /\ DLInit /\ RunnerIdle /\ CrawlIdle /\ HttpIdle /\ DetailIdle /\
       BinaryIdle /\ SemaphoreIdle
    \/ CrawlInit /\ DLInit /\ RunnerIdle /\ ExtractIdle /\ HttpIdle /\ DetailIdle /\
       BinaryIdle /\ SemaphoreIdle

\* one call of extract_pdfs_and_file_links_from_html, or one call of
\* crawl_site
SpecDiscovery == InitDiscovery /\ [][ExtractNext \/ CrawlNext]_vars

InitExtract ==
    ExtractInit /\ DLInit /\ RunnerIdle /\ CrawlIdle /\ HttpIdle /\ DetailIdle /\
    BinaryIdle /\ SemaphoreIdle

\* extract_pdfs_and_file_links_from_html on every document of at most
\* MaxElems elements
SpecExtract == InitExtract /\ [][ExtractNext]_vars

InitCrawl ==
    CrawlInit /\ DLInit /\ RunnerIdle /\ ExtractIdle /\ HttpIdle /\ DetailIdle /\
    BinaryIdle /\ SemaphoreIdle

\* one crawl_site call on the site PageDoc
SpecCrawl == InitCrawl /\ [][CrawlNext]_vars

\* discovery.py 698-738, 810: a step of the loop can be taken: the loop ends,
\* or the head of the queue falls under one of the iteration's cases
CrawlCanStep ==
    /\ crPc = "loop"
    /\ \/ ~LoopContinues
       \/ found_primary_target_page
       \/ current_url \in visited_urls
       \/ current_depth > max_depth
       \/ blacklisted(current_url)
       \/ driver \in {"open", "none"}

\* crawl_site runs to its return: every fetch and render returns, so the
\* loop takes a step whenever one can be taken. This is WF_vars(CrawlNext)
\* with ENABLED <<CrawlNext>>_vars written as the state predicate
\* CrawlCanStep; under [][CrawlNext]_vars the steps that change vars are the
\* steps of CrawlNext.
CrawlFairness == []<>(~CrawlCanStep) \/ []<><<TRUE>>_vars

SpecCrawlLive == InitCrawl /\ [][CrawlNext]_vars /\ CrawlFairness

InitHttp ==
    HttpInit /\ DLInit /\ RunnerIdle /\ ExtractIdle /\ CrawlIdle /\ DetailIdle /\
    BinaryIdle /\ SemaphoreIdle

\* one call of safe_get_text or robust_request against every script of
\* MaxRequests outcomes
SpecHttp == InitHttp /\ [][HttpNext]_vars

InitDetail ==
    DetailInit /\ DLInit /\ RunnerIdle /\ ExtractIdle /\ CrawlIdle /\ HttpIdle /\
    BinaryIdle /\ SemaphoreIdle

\* one call of download_detail_page
SpecDetail == InitDetail /\ [][DetailNext]_vars

\* download_detail_page runs to its return: a step that can be taken is
\* taken
SpecDetailLive == InitDetail /\ [][DetailNext]_vars /\ WF_vars(DetailNext)

InitBinary ==
    BinInit /\ DLInit /\ RunnerIdle /\ ExtractIdle /\ CrawlIdle /\ HttpIdle /\
    DetailIdle /\ SemaphoreIdle

\* up to MaxBin concurrent calls of _download_binary_response on one
\* directory, one seen set and one lock
SpecBinary == InitBinary /\ [][BinNext]_vars

InitSemaphore ==
    SemaphoreInit /\ DLInit /\ RunnerIdle /\ ExtractIdle /\ CrawlIdle /\
    HttpIdle /\ DetailIdle /\ BinaryIdle

\* up to MaxCallers concurrent first calls of _get_domain_semaphore
SpecSemaphore == InitSemaphore /\ [][SemaphoreNext]_vars
====
